---- MODULE Spec2Model ----
(***************************************************************************)
(* Model of the arbitrage bot's opportunity store (ArbitrageAnalyzer) and  *)
(* of its single-flight execution pipeline (TransactionExecutor).          *)
(*                                                                         *)
(* Node.js runs one handler at a time: an action of this model is the code *)
(* a handler runs between two suspension points (an await on network I/O   *)
(* or on a timer).  An await on an async function that performs no I/O     *)
(* only yields to the microtask queue, where no other handler can run, so  *)
(* it does not end an action.                                              *)
(*                                                                         *)
(* Times are in milliseconds.  Percentages are in tenths of a percent.     *)
(***************************************************************************)
EXTENDS Integers, Sequences, FiniteSets, TLC

\* ---------------------------------------------------------------- bounds
MaxDay == 2
MaxTick == 1
MaxStore == 1
MaxBatch == 1
MaxRankStore == 3
MaxMockRounds == 2
MaxCycles == 2
MaxRecorded == 2
DailyTransactionLimit == 1

\* ----------------------------------------------------- program constants
DayMs == 86400000
UsableAgeMs == 60000
EvictAgeMs == 300000
MinConfidence == 50
MinProfitPercentage == 5
MaxGasPrice == 50
HistoryCap == 100
BestLimit == 10

\* ------------------------------------------------------------ input sets
\* the clock is read one usable window apart, so that an age of exactly 60000 occurs
TickMs == UsableAgeMs
Callers == {"manual", "auto", "web"}
Pairs == {1}
ProfitValues == {3, 10}
ConfidenceValues == {40, 80}
TimestampSkews == {0}
\* the instants the clock is read at: the first ticks of day 0, then each midnight
ClockValues == {k * TickMs : k \in 0..MaxTick} \cup {d * DayMs : d \in 1..MaxDay}

\* validateConfig stops the process unless NETWORK_MODE is testnet
Configs == [networkMode : {"testnet"}, enableSecurityChecks : BOOLEAN,
            enableSimulation : BOOLEAN, dailyTransactionLimit : {DailyTransactionLimit}]
GasCostValues == {2}
BalanceValues == {3, 4}
UnknownId == <<0, 1>>

NoOpportunity ==
  [id |-> <<0, 0>>, timestamp |-> 0, profitPercentage |-> 0, confidence |-> 0, gasCost |-> 0]

VARIABLES
  now,                    \* Date.now()
  config,                 \* SECURITY_CONFIG, and ARBITRAGE_CONFIG.dailyTransactionLimit
  signer,                 \* blockchainConnection.signer is set
  isRunning,              \* arbitrageAnalyzer.isRunning
  opportunities,          \* arbitrageAnalyzer.opportunities, in insertion order
  analysisPc,             \* the venue pair whose gas estimate the cycle in flight awaits (0: none)
  newOpportunities,       \* candidates collected by the cycle in flight
  dailyTransactionCount,  \* arbitrageAnalyzer.dailyTransactionCount
  lastResetDate,          \* arbitrageAnalyzer.lastResetDate
  limitReachedDate,       \* date of the increment that brought the counter to the limit
  isExecuting,            \* transactionExecutor.isExecuting
  executionHistory,       \* transactionExecutor.executionHistory
  pc,                     \* per caller: where its executeArbitrage call is suspended
  cur,                    \* per caller: the opportunity its call is executing
  ethBalance,             \* per caller: the native balance its funding check has read
  trace,                  \* per caller: the pipeline stages its call has entered so far
  lastReturn,             \* the latest value returned by executeArbitrage or by a read of the store
  bestCall,               \* the latest getBestOpportunities(limit) call: its inputs and its list
  priceCache,             \* priceFeeds.priceCache, as getAllCurrentPrices returns it
  cycle,                  \* the detection cycle in detail: its inputs, the pairs it evaluated, its output
  scoreCall,              \* the latest calculateConfidenceScore call: its inputs and its score
  profitCall,             \* the latest profit computation: its inputs and its results
  statsCall,              \* the latest getExecutionStats call: the history it read and its result
  snapshotCall,           \* the latest getTokenPrices call: the cache it read and its outcome
  everWritten,            \* the (network, token) keys a refresh has written an entry for
  walletAddress,          \* blockchainConnection.walletAddress ("none": null)
  connectedNetwork,       \* blockchainConnection.connectedNetwork ("none": null)
  connectPc,              \* where the connectMetaMask call in flight is suspended
  listening,              \* setupEventListeners has registered the MetaMask listeners
  feedRunning,            \* priceFeeds.isRunning
  updateInterval,         \* priceFeeds.updateInterval: armed, and when it was set or last fired
  analysisInterval,       \* arbitrageAnalyzer.analysisInterval: the same
  passes,                 \* the refresh passes in flight: per key, where its update is
  passesStarted,          \* how many refresh passes have been started
  lastWriter,             \* per key: the pass (by its start order) that wrote the entry
  loopError               \* what became of the latest error raised inside a cycle

vars == <<now, config, signer, isRunning, opportunities, analysisPc, newOpportunities,
          dailyTransactionCount, lastResetDate, limitReachedDate, isExecuting,
          executionHistory, pc, cur, ethBalance, trace, lastReturn,
          bestCall, priceCache, cycle, scoreCall, profitCall, statsCall, snapshotCall,
          everWritten, walletAddress, connectedNetwork, connectPc, listening,
          feedRunning, updateInterval, analysisInterval, passes, passesStarted,
          lastWriter, loopError>>

analyzerVars == <<isRunning, opportunities, analysisPc, newOpportunities>>
counterVars == <<dailyTransactionCount, lastResetDate, limitReachedDate>>
executorVars == <<isExecuting, executionHistory, pc, cur, ethBalance, trace>>
walletVars == <<walletAddress, connectedNetwork, connectPc, listening>>
loopVars == <<feedRunning, updateInterval, analysisInterval, passes, passesStarted,
              lastWriter, loopError>>
callVars == <<profitCall, statsCall, snapshotCall, everWritten, walletVars, loopVars>>
detectorVars == <<bestCall, priceCache, cycle, scoreCall, callVars>>

\* no wallet: the fields as the constructor of BlockchainConnection leaves them
InitWallet ==
  /\ walletAddress = "none"
  /\ connectedNetwork = "none"
  /\ connectPc = "idle"
  /\ listening = FALSE

\* a timer that setInterval has not armed
NoTimer == [armed |-> FALSE, last |-> 0]

\* no error raised in a cycle yet
NoLoopError == [outcome |-> "none", cycle |-> 0]

\* no timer armed, no refresh pass in flight (the pass slots are set up with the feed)
InitLoops ==
  /\ feedRunning = FALSE
  /\ updateInterval = NoTimer
  /\ analysisInterval = NoTimer
  /\ passes = <<>>
  /\ passesStarted = 0
  /\ lastWriter = <<>>
  /\ loopError = NoLoopError

\* ------------------------------------------------------------------ clock
\* new Date().toDateString(): the calendar day of an instant
Today(t) == t \div DayMs

\* ------------------------------------------------------- opportunity store
RECURSIVE SelectSeqIds(_, _)
SelectSeqIds(s, id) ==
  IF s = <<>> THEN <<>>
  ELSE IF Head(s).id = id THEN SelectSeqIds(Tail(s), id)
       ELSE <<Head(s)>> \o SelectSeqIds(Tail(s), id)

\* Map.get
MapGet(m, id) ==
  IF \E i \in 1..Len(m) : m[i].id = id
  THEN m[CHOOSE i \in 1..Len(m) : m[i].id = id]
  ELSE NoOpportunity

MapHas(m, id) == \E i \in 1..Len(m) : m[i].id = id

\* Map.set: an existing key keeps its position, a new key goes last
MapSet(m, opp) ==
  IF MapHas(m, opp.id)
  THEN [i \in 1..Len(m) |-> IF m[i].id = opp.id THEN opp ELSE m[i]]
  ELSE Append(m, opp)

\* Map.delete
MapDelete(m, id) == SelectSeqIds(m, id)

RECURSIVE MapSetAll(_, _)
MapSetAll(m, batch) ==
  IF batch = <<>> THEN m ELSE MapSetAll(MapSet(m, Head(batch)), Tail(batch))

Score(opp) == opp.profitPercentage * opp.confidence

RECURSIVE InsertByScoreUnstable(_, _)
InsertByScoreUnstable(sorted, opp) ==
  IF sorted = <<>> THEN <<opp>>
  ELSE IF Score(Head(sorted)) > Score(opp)
       THEN <<Head(sorted)>> \o InsertByScoreUnstable(Tail(sorted), opp)
       ELSE <<opp>> \o sorted

\* Array.prototype.sort with (a, b) => scoreB - scoreA: stable, descending
RECURSIVE InsertByScore(_, _)
InsertByScore(sorted, opp) ==
  IF sorted = <<>> THEN <<opp>>
  ELSE IF Score(Head(sorted)) >= Score(opp)
       THEN <<Head(sorted)>> \o InsertByScore(Tail(sorted), opp)
       ELSE <<opp>> \o sorted

RECURSIVE SortByScore(_)
SortByScore(s) ==
  IF s = <<>> THEN <<>>
  ELSE InsertByScore(SortByScore(SubSeq(s, 1, Len(s) - 1)), s[Len(s)])

Take(s, n) == SubSeq(s, 1, IF n < Len(s) THEN n ELSE Len(s))

BestKeepInclusive(opp, t) == t - opp.timestamp <= UsableAgeMs

\* getBestOpportunities' filter: age < 60000
BestKeep(opp, t) == t - opp.timestamp < UsableAgeMs

getBestOpportunities(m, t, limit) ==
  LET Keep(opp) == BestKeep(opp, t)
  IN Take(SortByScore(SelectSeq(m, Keep)), limit)

\* getOpportunityById: the entry it returns (NoOpportunity for null) ...
ByIdValid(opp, t) == ~(t - opp.timestamp > UsableAgeMs)

getOpportunityById(m, t, id) ==
  IF ~MapHas(m, id) THEN NoOpportunity
  ELSE IF ByIdValid(MapGet(m, id), t) THEN MapGet(m, id) ELSE NoOpportunity

\* ... and the store it leaves behind
getOpportunityByIdStore(m, t, id) ==
  IF MapHas(m, id) /\ ~ByIdValid(MapGet(m, id), t) THEN MapDelete(m, id) ELSE m

filterAndRankOpportunities(batch, t) ==
  LET Keep(opp) == /\ ~(opp.profitPercentage < MinProfitPercentage)
                   /\ ~(opp.confidence < MinConfidence)
                   /\ ~(t - opp.timestamp > UsableAgeMs)
  IN SortByScore(SelectSeq(batch, Keep))

updateOpportunityCache(m, batch, t) ==
  LET Keep(opp) == ~(opp.timestamp < t - EvictAgeMs)
  IN MapSetAll(SelectSeq(m, Keep), batch)

\* ------------------------------------------------------------ daily limit
canExecuteTransactionCountAlwaysReset(count, resetDate, t) == 0

\* canExecuteTransaction: the counter it leaves behind (reset on a new date) ...
canExecuteTransactionCount(count, resetDate, t) ==
  IF Today(t) # resetDate THEN 0 ELSE count

canExecuteTransactionInclusive(count, resetDate, t) ==
  canExecuteTransactionCount(count, resetDate, t) <= config.dailyTransactionLimit

\* ... and its answer
canExecuteTransaction(count, resetDate, t) ==
  canExecuteTransactionCount(count, resetDate, t) < config.dailyTransactionLimit

\* blockchainConnection.validateSecurityChecks (every configured network is a testnet)
validateSecurityChecks(cfg) ==
  IF ~cfg.enableSecurityChecks THEN TRUE
  ELSE IF cfg.networkMode # "testnet" THEN FALSE
  ELSE TRUE

\* performSecurityChecks up to its first suspension (provider.getFeeData):
\* the reason it fails with, or "pending" when it goes on to the fee query
SecurityChecksSync(opp, providerOk) ==
  IF ~validateSecurityChecks(config) THEN "Blockchain"
  ELSE IF ~canExecuteTransaction(dailyTransactionCount, lastResetDate, now) THEN "DailyLimit"
  ELSE IF now - opp.timestamp > UsableAgeMs THEN "TooOld"
  ELSE IF opp.profitPercentage < MinProfitPercentage THEN "LowProfit"
  ELSE IF ~providerOk THEN "GateError"
  ELSE "pending"

\* the fee query threw, returned no gas price, or returned one (in gwei)
GasPrices == {MaxGasPrice, MaxGasPrice + 1}
GateFeeData == [kind : {"throws", "null", "value"}, gasPrice : GasPrices]

performSecurityChecksAfterFeeDataIgnoresThrow(feeData, liquidity) ==
  IF feeData.kind = "value" /\ feeData.gasPrice > MaxGasPrice THEN "GasPrice"
  ELSE IF ~liquidity THEN "Liquidity"
  ELSE "passed"

\* performSecurityChecks from the return of provider.getFeeData on: formatUnits throws
\* on a missing gas price and the catch turns every throw into { passed: false }
performSecurityChecksAfterFeeData(feeData, liquidity) ==
  IF feeData.kind # "value" THEN "GateError"
  ELSE IF feeData.gasPrice > MaxGasPrice THEN "GasPrice"
  ELSE IF ~liquidity THEN "Liquidity"
  ELSE "passed"

\* performSecurityChecks as a whole: the reason it fails with, or "passed"
performSecurityChecks(opp, providerOk, feeData, liquidity) ==
  IF SecurityChecksSync(opp, providerOk) # "pending"
  THEN SecurityChecksSync(opp, providerOk)
  ELSE performSecurityChecksAfterFeeData(feeData, liquidity)

\* ------------------------------------------------------------------- Init
NoReturn == [op |-> "none", result |-> "none", stages |-> <<>>, ages |-> <<>>]

\* what executeArbitrage returned, with the stages the call went through
ExecuteReturn(result, stages) ==
  [op |-> "executeArbitrage", result |-> result, stages |-> stages, ages |-> <<>>]

\* what getOpportunityById returned: the entry (with its age at the call) or null
LookupReturn(found) ==
  [op |-> "getOpportunityById",
   result |-> IF found = NoOpportunity THEN "null" ELSE "found",
   stages |-> <<>>,
   ages |-> IF found = NoOpportunity THEN <<>> ELSE <<now - found.timestamp>>]

\* what getBestOpportunities returned: the ages, at the call, of its entries
BestReturn(best) ==
  [op |-> "getBestOpportunities", result |-> "list", stages |-> <<>>,
   ages |-> [i \in 1..Len(best) |-> now - best[i].timestamp]]

\* no getBestOpportunities(limit) call yet
NoBestCall == [limit |-> 0, now |-> 0, store |-> <<>>, list |-> <<>>]

\* an empty price cache
NoPrices == [network |-> "none", samples |-> <<>>]

\* no calculateConfidenceScore call yet
NoScoreCall ==
  [called |-> FALSE, buyDex |-> [dex |-> "none", timestamp |-> 0],
   sellDex |-> [dex |-> "none", timestamp |-> 0], now |-> 0, confidence |-> 0]

\* no profit computation yet
NoProfitCall == [op |-> "none"]

\* no getExecutionStats call yet
NoStatsCall == [called |-> FALSE]

\* no getTokenPrices call yet
NoSnapshotCall == [called |-> FALSE]

\* what a completed detection cycle read and stored
NoLastCycle == [path |-> "none", input |-> NoPrices, start |-> 0, evaluated |-> <<>>,
                output |-> <<>>]

\* no detection cycle yet
NoCycle == [path |-> "none", input |-> NoPrices, start |-> 0, evaluated |-> <<>>,
            output |-> <<>>, done |-> FALSE, count |-> 0, last |-> NoLastCycle]

Init ==
  /\ now = 0
  /\ config \in Configs
  /\ signer = FALSE
  /\ isRunning = FALSE
  /\ opportunities = <<>>
  /\ analysisPc = 0
  /\ newOpportunities = <<>>
  /\ dailyTransactionCount = 0
  /\ lastResetDate = Today(0)
  /\ limitReachedDate = -1
  /\ isExecuting = FALSE
  /\ executionHistory = <<>>
  /\ pc = [c \in Callers |-> "idle"]
  /\ cur = [c \in Callers |-> NoOpportunity]
  /\ ethBalance = [c \in Callers |-> 0]
  /\ trace = [c \in Callers |-> <<>>]
  /\ lastReturn = NoReturn
  /\ bestCall = NoBestCall
  /\ scoreCall = NoScoreCall
  /\ profitCall = NoProfitCall
  /\ statsCall = NoStatsCall
  /\ snapshotCall = NoSnapshotCall
  /\ everWritten = {}
  /\ InitWallet
  /\ InitLoops
  /\ priceCache = NoPrices
  /\ cycle = NoCycle

\* ------------------------------------------------------------ environment
\* the wall clock moves on to a later instant
Tick ==
  /\ \E t \in ClockValues : t > now /\ now' = t
  /\ UNCHANGED <<config, signer, analyzerVars, counterVars, executorVars, lastReturn>>
  /\ UNCHANGED detectorVars

\* connectMetaMask succeeds
ConnectMetaMask ==
  /\ ~signer
  /\ signer' = TRUE
  /\ UNCHANGED <<now, config, analyzerVars, counterVars, executorVars, lastReturn>>
  /\ UNCHANGED detectorVars

\* disconnect (accountsChanged with no account, or a change to an unknown chain)
Disconnect ==
  /\ signer
  /\ signer' = FALSE
  /\ UNCHANGED <<now, config, analyzerVars, counterVars, executorVars, lastReturn>>
  /\ UNCHANGED detectorVars

\* --------------------------------------------------------------- analyzer
AnalyzerStart ==
  /\ ~isRunning
  /\ isRunning' = TRUE
  /\ UNCHANGED <<now, config, signer, opportunities, analysisPc, newOpportunities,
                 counterVars, executorVars, lastReturn>>
  /\ UNCHANGED detectorVars

Candidate(pair, ts, profit, confidence, gas) ==
  [id |-> <<pair, ts>>, timestamp |-> ts, profitPercentage |-> profit,
   confidence |-> confidence, gasCost |-> gas]

\* the candidates generateMockArbitrageOpportunities can return: net profit above
\* the minimum, confidence in 75..94, timestamps spread from the call's instant on
MockCandidates ==
  {Candidate(pair, now + skew, profit, confidence, gas) :
     pair \in Pairs, skew \in TimestampSkews,
     profit \in {p \in ProfitValues : p > MinProfitPercentage},
     confidence \in {k \in ConfidenceValues : k >= 75 /\ k < 95},
     gas \in GasCostValues}

SeqsUpTo(S, n) == UNION {[1..k -> S] : k \in 0..n}

\* one detection cycle on the simulated path: it never suspends
AnalyzeMock ==
  /\ isRunning
  /\ \E batch \in SeqsUpTo(MockCandidates, MaxBatch) :
       /\ opportunities' =
            updateOpportunityCache(opportunities, filterAndRankOpportunities(batch, now), now)
       /\ Len(opportunities') <= MaxStore
  /\ UNCHANGED <<now, config, signer, isRunning, analysisPc, newOpportunities,
                 counterVars, executorVars, lastReturn>>
  /\ UNCHANGED detectorVars

\* a detection cycle on the on-chain path starts and suspends on its first gas estimate
AnalyzeStart ==
  /\ isRunning
  /\ analysisPc = 0
  /\ analysisPc' = 1
  /\ newOpportunities' = <<>>
  /\ UNCHANGED <<now, config, signer, isRunning, opportunities,
                 counterVars, executorVars, lastReturn>>
  /\ UNCHANGED detectorVars

\* a gas estimate returns: the venue pair's candidate is stamped and kept when it
\* is profitable enough; after the last pair the batch is ranked and stored
AnalyzeGasReturn ==
  /\ analysisPc \in Pairs
  /\ \E profit \in ProfitValues, confidence \in ConfidenceValues, gas \in GasCostValues :
       LET opp == Candidate(analysisPc, now, profit, confidence, gas)
           batch == IF profit >= MinProfitPercentage
                    THEN Append(newOpportunities, opp) ELSE newOpportunities
       IN /\ Len(batch) <= MaxBatch
          /\ IF analysisPc = Cardinality(Pairs)
             THEN /\ opportunities' =
                       updateOpportunityCache(opportunities,
                                              filterAndRankOpportunities(batch, now), now)
                  /\ Len(opportunities') <= MaxStore
                  /\ analysisPc' = 0
                  /\ newOpportunities' = <<>>
             ELSE /\ analysisPc' = analysisPc + 1
                  /\ newOpportunities' = batch
                  /\ UNCHANGED opportunities
  /\ UNCHANGED <<now, config, signer, isRunning, counterVars, executorVars, lastReturn>>
  /\ UNCHANGED detectorVars

\* GET /api/opportunities/:id
ApiGetOpportunity(id) ==
  /\ lastReturn' = LookupReturn(getOpportunityById(opportunities, now, id))
  /\ opportunities' = getOpportunityByIdStore(opportunities, now, id)
  /\ UNCHANGED <<now, config, signer, isRunning, analysisPc, newOpportunities,
                 counterVars, executorVars>>
  /\ UNCHANGED detectorVars

\* GET /api/opportunities, and the "opportunities" command
ApiGetOpportunities ==
  /\ lastReturn' = BestReturn(getBestOpportunities(opportunities, now, BestLimit))
  /\ UNCHANGED <<now, config, signer, analyzerVars, counterVars, executorVars>>
  /\ UNCHANGED detectorVars

StoreIds == {opportunities[i].id : i \in 1..Len(opportunities)} \cup {UnknownId}

\* --------------------------------------------------------------- executor
GateReasons == {"Blockchain", "DailyLimit", "TooOld", "LowProfit", "GasPrice",
                "Liquidity", "GateError"}
FailureReasons == GateReasons \cup {"Simulation", "FundingError", "InsufficientFunds", "Backend"}

IsBusyNever == FALSE

\* executeArbitrage's guard: if (this.isExecuting) return null
IsBusy == isExecuting

FlagAfterRejectionCleared == FALSE

\* the flag a rejected call leaves behind: the early return is outside the try
FlagAfterRejection == isExecuting

FlagAfterReturnOnSuccessOnly(result) == result # "success"

\* the flag a call that went through the try leaves behind: finally clears it
FlagAfterReturn(result) == FALSE

InsufficientFundsNoBuffer(balance, gasCost) == balance < gasCost

\* checkBalancesAndApprovals: parseFloat(ethBalance) < estimatedGasCost * 2
InsufficientFunds(balance, gasCost) == balance < gasCost * 2

pushExecutionKeepOldest(history, execution) ==
  LET h == Append(history, execution)
  IN IF Len(h) > HistoryCap THEN SubSeq(h, 1, HistoryCap) ELSE h

\* updateExecutionHistory: push, then keep the last 100
pushExecution(history, execution) ==
  LET h == Append(history, execution)
  IN IF Len(h) > HistoryCap THEN SubSeq(h, Len(h) - HistoryCap + 1, Len(h)) ELSE h

\* updateExecutionHistory, the record reduced to its timestamp, its opportunity and its success flag
updateExecutionHistory(history, opp, t) ==
  pushExecution(history, [timestamp |-> t, opportunity |-> opp.id, success |-> FALSE])

\* the call of caller c is over: its locals are gone
Returned(c, result, stages, balance) ==
  /\ pc' = [pc EXCEPT ![c] = "idle"]
  /\ cur' = [cur EXCEPT ![c] = NoOpportunity]
  /\ trace' = [trace EXCEPT ![c] = <<>>]
  /\ ethBalance' = [ethBalance EXCEPT ![c] = 0]
  /\ lastReturn' = ExecuteReturn(result, stages)
  /\ isExecuting' = FlagAfterReturn(result)

catchBlockRethrows(reason) == "thrown"

\* the catch block of executeArbitrage: return { success: false, error: error.message }
catchBlock(reason) == reason

\* the catch and finally blocks of executeArbitrage: the call returns a failure
Fail(c, reason, stages, balance) ==
  /\ Returned(c, catchBlock(reason), stages, balance)
  /\ UNCHANGED executionHistory

\* the call goes on and suspends at the next await
Suspend(c, at, stages, balance) ==
  /\ pc' = [pc EXCEPT ![c] = at]
  /\ trace' = [trace EXCEPT ![c] = stages]
  /\ ethBalance' = [ethBalance EXCEPT ![c] = balance]
  /\ UNCHANGED <<cur, lastReturn, isExecuting, executionHistory>>

\* executeArbitrage(opportunity) from its entry to its first suspension
executeArbitrage(c, opp, providerOk) ==
  IF IsBusy
  THEN /\ lastReturn' = ExecuteReturn("busy", <<>>)
       /\ isExecuting' = FlagAfterRejection
       /\ UNCHANGED <<pc, cur, ethBalance, trace, executionHistory, counterVars>>
  ELSE LET reason == SecurityChecksSync(opp, providerOk)
       IN /\ IF validateSecurityChecks(config)
             THEN /\ dailyTransactionCount' =
                       canExecuteTransactionCount(dailyTransactionCount, lastResetDate, now)
                  /\ lastResetDate' = Today(now)
             ELSE UNCHANGED <<dailyTransactionCount, lastResetDate>>
          /\ UNCHANGED limitReachedDate
          /\ IF reason = "pending"
             THEN /\ isExecuting' = TRUE
                  /\ pc' = [pc EXCEPT ![c] = "feeData"]
                  /\ cur' = [cur EXCEPT ![c] = opp]
                  /\ trace' = [trace EXCEPT ![c] = <<"security">>]
                  /\ UNCHANGED <<ethBalance, lastReturn, executionHistory>>
             ELSE /\ pc' = [pc EXCEPT ![c] = "idle"]
                  /\ lastReturn' = ExecuteReturn(catchBlock(reason), <<"security">>)
                  /\ isExecuting' = FlagAfterReturn(reason)
                  /\ UNCHANGED <<cur, ethBalance, trace, executionHistory>>

\* the "execute" command: executeManualArbitrage
ManualExecute ==
  /\ pc["manual"] = "idle"
  /\ getBestOpportunities(opportunities, now, 1) # <<>>
  /\ \E providerOk \in BOOLEAN :
       executeArbitrage("manual", getBestOpportunities(opportunities, now, 1)[1], providerOk)
  /\ UNCHANGED <<now, config, signer, analyzerVars>>
  /\ UNCHANGED detectorVars

\* the 30-second task: executeAutomaticArbitrage when a wallet is connected
AutoExecute ==
  /\ pc["auto"] = "idle"
  /\ signer
  /\ IF isExecuting
     THEN /\ lastReturn' = ExecuteReturn("busy", <<>>)
          /\ UNCHANGED <<executorVars, counterVars>>
     ELSE /\ getBestOpportunities(opportunities, now, 1) # <<>>
          /\ \E providerOk \in BOOLEAN :
               executeArbitrage("auto", getBestOpportunities(opportunities, now, 1)[1],
                                providerOk)
  /\ UNCHANGED <<now, config, signer, analyzerVars>>
  /\ UNCHANGED detectorVars

\* POST /api/execute/:opportunityId
ApiExecute(id) ==
  /\ pc["web"] = "idle"
  /\ opportunities' = getOpportunityByIdStore(opportunities, now, id)
  /\ IF getOpportunityById(opportunities, now, id) = NoOpportunity
     THEN /\ lastReturn' = LookupReturn(NoOpportunity)
          /\ UNCHANGED <<executorVars, counterVars>>
     ELSE \E providerOk \in BOOLEAN :
            executeArbitrage("web", getOpportunityById(opportunities, now, id), providerOk)
  /\ UNCHANGED <<now, config, signer, isRunning, analysisPc, newOpportunities>>
  /\ UNCHANGED detectorVars

getSignerAlwaysReturns(s) == FALSE

\* getSigner: throws when no signer is connected
getSignerThrows(s) == ~s

\* executeArbitrageTransaction up to its 2-second wait
StartSubmission(c, providerOk, stages, balance) ==
  IF getSignerThrows(signer) \/ ~providerOk
  THEN Fail(c, "Backend", Append(stages, "submission"), balance)
  ELSE Suspend(c, "submit", Append(stages, "submission"), balance)

\* provider.getFeeData returns in performSecurityChecks; the liquidity probe, the
\* simulation and the start of the funding check follow without a suspension
FeeDataReturn(c) ==
  /\ pc[c] = "feeData"
  /\ \E feeData \in GateFeeData, liquidity \in BOOLEAN, providerOk \in BOOLEAN :
       IF performSecurityChecksAfterFeeData(feeData, liquidity) # "passed"
       THEN Fail(c, performSecurityChecksAfterFeeData(feeData, liquidity), trace[c], 0)
       ELSE LET simulated == IF config.enableSimulation
                             THEN Append(trace[c], "simulation") ELSE trace[c]
            IN IF config.enableSimulation /\ (~providerOk \/ getSignerThrows(signer))
               THEN Fail(c, "Simulation", simulated, 0)
               ELSE IF getSignerThrows(signer)
                    THEN Fail(c, "FundingError", Append(simulated, "funding"), 0)
                    ELSE Suspend(c, "balance", Append(simulated, "funding"), 0)
  /\ UNCHANGED <<now, config, signer, analyzerVars, counterVars>>
  /\ UNCHANGED detectorVars

\* signer.getAddress and getNativeBalance return in checkBalancesAndApprovals
BalanceReturn(c) ==
  /\ pc[c] = "balance"
  /\ \/ Fail(c, "FundingError", trace[c], 0)
     \/ \E balance \in BalanceValues, hasTokenAddress \in BOOLEAN, providerOk \in BOOLEAN :
          IF InsufficientFunds(balance, cur[c].gasCost)
          THEN Fail(c, "InsufficientFunds", trace[c], balance)
          ELSE IF hasTokenAddress
               THEN Suspend(c, "tokenBalance", trace[c], balance)
               ELSE StartSubmission(c, providerOk, trace[c], balance)
  /\ UNCHANGED <<now, config, signer, analyzerVars, counterVars>>
  /\ UNCHANGED detectorVars

\* getTokenBalance returns in checkBalancesAndApprovals
TokenBalanceReturn(c) ==
  /\ pc[c] = "tokenBalance"
  /\ \E ok \in BOOLEAN, providerOk \in BOOLEAN :
       IF ~ok THEN Fail(c, "FundingError", trace[c], ethBalance[c])
       ELSE StartSubmission(c, providerOk, trace[c], ethBalance[c])
  /\ UNCHANGED <<now, config, signer, analyzerVars, counterVars>>
  /\ UNCHANGED detectorVars

\* the 2-second wait of executeArbitrageTransaction ends; monitorTransaction starts
SubmitReturn(c) ==
  /\ pc[c] = "submit"
  /\ Suspend(c, "confirm", Append(trace[c], "confirmation"), ethBalance[c])
  /\ UNCHANGED <<now, config, signer, analyzerVars, counterVars>>
  /\ UNCHANGED detectorVars

\* the 3-second wait of monitorTransaction ends: settlement, record, counter, return
ConfirmReturn(c) ==
  /\ pc[c] = "confirm"
  /\ executionHistory' = updateExecutionHistory(executionHistory, cur[c], now)
  /\ dailyTransactionCount' = dailyTransactionCount + 1
  /\ limitReachedDate' = IF dailyTransactionCount + 1 = config.dailyTransactionLimit
                         THEN Today(now) ELSE limitReachedDate
  /\ Returned(c, "success", trace[c] \o <<"settlement", "record">>, ethBalance[c])
  /\ UNCHANGED <<now, config, signer, analyzerVars, lastResetDate>>
  /\ UNCHANGED detectorVars

\* ------------------------------------------------------------------- Next
Next ==
  \/ Tick
  \/ ConnectMetaMask
  \/ Disconnect
  \/ AnalyzerStart
  \/ AnalyzeMock
  \/ AnalyzeStart
  \/ AnalyzeGasReturn
  \/ ApiGetOpportunities
  \/ \E id \in StoreIds : ApiGetOpportunity(id)
  \/ ManualExecute
  \/ AutoExecute
  \/ \E id \in StoreIds : ApiExecute(id)
  \/ \E c \in Callers : FeeDataReturn(c)
  \/ \E c \in Callers : BalanceReturn(c)
  \/ \E c \in Callers : TokenBalanceReturn(c)
  \/ \E c \in Callers : SubmitReturn(c)
  \/ \E c \in Callers : ConfirmReturn(c)

Spec == Init /\ [][Next]_vars

\* the pipeline moves on whenever the external call it waits for returns or throws
Fairness ==
  \A c \in Callers :
    /\ WF_vars(FeeDataReturn(c))
    /\ WF_vars(BalanceReturn(c))
    /\ WF_vars(TokenBalanceReturn(c))
    /\ WF_vars(SubmitReturn(c))
    /\ WF_vars(ConfirmReturn(c))

SpecFair == Spec /\ Fairness

\* ------------------------------------------- the analyzer started and stopped
\* stop(): the flag is cleared, the interval is cleared and the store is emptied; a
\* cycle that is suspended on a gas estimate is not told
AnalyzerStop ==
  /\ isRunning
  /\ isRunning' = FALSE
  /\ opportunities' = <<>>
  /\ UNCHANGED <<now, config, signer, analysisPc, newOpportunities,
                 counterVars, executorVars, lastReturn>>
  /\ UNCHANGED detectorVars

NextLifecycle ==
  \/ Tick
  \/ AnalyzerStart
  \/ AnalyzerStop
  \/ AnalyzeMock
  \/ AnalyzeStart
  \/ AnalyzeGasReturn
  \/ ApiGetOpportunities

SpecLifecycle == Init /\ [][NextLifecycle]_vars

\* ------------------------------------------- the wallet connection in detail
\* connectMetaMask in a browser environment, step by step, with the MetaMask events.
\* NETWORKS: every configured network is a testnet
ConfiguredTestnets == {"ethereum", "bsc", "polygon"}
\* the chain ids MetaMask can report: those of NETWORKS, and one it does not list
ChainIds == {11155111, 97, 80002, 1}

getNetworkNameByChainId(chainId) ==
  IF chainId = 11155111 THEN "ethereum"
  ELSE IF chainId = 97 THEN "bsc"
  ELSE IF chainId = 80002 THEN "polygon"
  ELSE "none"

\* the connection as it was when the connectMetaMask call in flight began
ConnectCalled ==
  [op |-> "connectMetaMask", result |-> "pending",
   before |-> [signer |-> signer, walletAddress |-> walletAddress,
               connectedNetwork |-> connectedNetwork]]

\* connectMetaMask throws: the catch logs and rethrows, no field is touched
ConnectThrows(reason) ==
  /\ connectPc' = "idle"
  /\ lastReturn' = [lastReturn EXCEPT !.result = reason]

WalletUnchanged ==
  UNCHANGED <<now, config, analyzerVars, counterVars, executorVars,
              bestCall, priceCache, cycle, scoreCall, profitCall, statsCall, snapshotCall,
              everWritten, loopVars>>

\* the "connect" command: connectMetaMask up to window.ethereum.request
WalletConnectStart ==
  /\ connectPc = "idle"
  /\ connectPc' = "accounts"
  /\ lastReturn' = ConnectCalled
  /\ UNCHANGED <<signer, walletAddress, connectedNetwork, listening>>
  /\ WalletUnchanged

\* eth_requestAccounts returns (or the user refuses); provider.getSigner is awaited
WalletAccountsReturn ==
  /\ connectPc = "accounts"
  /\ \E accounts \in {"throws", "empty", "one"} :
       IF accounts = "throws" THEN ConnectThrows("Rejected")
       ELSE IF accounts = "empty" THEN ConnectThrows("NoAccounts")
       ELSE connectPc' = "signer" /\ UNCHANGED lastReturn
  /\ UNCHANGED <<signer, walletAddress, connectedNetwork, listening>>
  /\ WalletUnchanged

\* this.signer = await provider.getSigner(); signer.getAddress is awaited
WalletSignerReturn ==
  /\ connectPc = "signer"
  /\ \E ok \in BOOLEAN :
       IF ok THEN signer' = TRUE /\ connectPc' = "address" /\ UNCHANGED lastReturn
       ELSE ConnectThrows("Rejected") /\ UNCHANGED signer
  /\ UNCHANGED <<walletAddress, connectedNetwork, listening>>
  /\ WalletUnchanged

\* this.walletAddress = await this.signer.getAddress(); provider.getNetwork is awaited
WalletAddressReturn ==
  /\ connectPc = "address"
  /\ \E ok \in BOOLEAN :
       IF ok THEN walletAddress' = "0xA" /\ connectPc' = "network" /\ UNCHANGED lastReturn
       ELSE ConnectThrows("Rejected") /\ UNCHANGED walletAddress
  /\ UNCHANGED <<signer, connectedNetwork, listening>>
  /\ WalletUnchanged

\* the network validation of connectMetaMask: the name of the chain id, and a
\* throw when there is none (every configured network is a testnet)
networkValidation(chainId) == getNetworkNameByChainId(chainId)

\* provider.getNetwork returns: the network is validated, and only then
\* connectedNetwork is set and the listeners are registered
WalletNetworkReturn(chainId) ==
  /\ connectPc = "network"
  /\ IF networkValidation(chainId) = "none"
     THEN /\ ConnectThrows("UnsupportedNetwork")
          /\ UNCHANGED <<connectedNetwork, listening>>
     ELSE /\ connectedNetwork' = networkValidation(chainId)
          /\ listening' = TRUE
          /\ connectPc' = "idle"
          /\ lastReturn' = [lastReturn EXCEPT !.result = "connected"]
  /\ UNCHANGED <<signer, walletAddress>>
  /\ WalletUnchanged

\* disconnect()
WalletDisconnected ==
  /\ signer' = FALSE
  /\ walletAddress' = "none"
  /\ connectedNetwork' = "none"

\* accountsChanged: no account left disconnects, another account reconnects
WalletAccountsChanged(empty) ==
  /\ listening
  /\ IF empty
     THEN WalletDisconnected /\ UNCHANGED <<connectPc, lastReturn>>
     ELSE /\ connectPc = "idle"
          /\ connectPc' = "accounts"
          /\ lastReturn' = ConnectCalled
          /\ UNCHANGED <<signer, walletAddress, connectedNetwork>>
  /\ UNCHANGED listening
  /\ WalletUnchanged

\* chainChanged: an unknown chain disconnects, a configured one is taken over
WalletChainChanged(chainId) ==
  /\ listening
  /\ IF getNetworkNameByChainId(chainId) = "none"
     THEN WalletDisconnected
     ELSE /\ connectedNetwork' = getNetworkNameByChainId(chainId)
          /\ UNCHANGED <<signer, walletAddress>>
  /\ UNCHANGED <<connectPc, listening, lastReturn>>
  /\ WalletUnchanged

\* connectMetaMaskFromBrowser(walletAddress, chainId): validation first, no signer
ConnectMetaMaskFromBrowser(chainId) ==
  /\ IF getNetworkNameByChainId(chainId) = "none"
     THEN UNCHANGED <<walletAddress, connectedNetwork>>
     ELSE /\ walletAddress' = "0xA"
          /\ connectedNetwork' = getNetworkNameByChainId(chainId)
  /\ UNCHANGED <<signer, connectPc, listening, lastReturn>>
  /\ WalletUnchanged

NextWallet ==
  \/ WalletConnectStart
  \/ WalletAccountsReturn
  \/ WalletSignerReturn
  \/ WalletAddressReturn
  \/ \E chainId \in ChainIds : WalletNetworkReturn(chainId)
  \/ \E empty \in BOOLEAN : WalletAccountsChanged(empty)
  \/ \E chainId \in ChainIds : WalletChainChanged(chainId)
  \/ \E chainId \in ChainIds : ConnectMetaMaskFromBrowser(chainId)

SpecWallet == Init /\ [][NextWallet]_vars

\* ------------------------------------- the executor loaded without validateConfig
\* SECURITY_CONFIG as config.js reads it from the environment.  The scripts that
\* import the executor directly never call validateConfig, so NETWORK_MODE can be
\* anything there.
SecurityConfigs == [networkMode : {"testnet", "mainnet"}, enableSecurityChecks : BOOLEAN,
                    enableSimulation : BOOLEAN,
                    dailyTransactionLimit : {DailyTransactionLimit}]

InitExecutor ==
  /\ now = 0
  /\ config \in SecurityConfigs
  /\ signer = FALSE
  /\ isRunning = FALSE
  /\ opportunities = <<>>
  /\ analysisPc = 0
  /\ newOpportunities = <<>>
  /\ dailyTransactionCount = 0
  /\ lastResetDate = Today(0)
  /\ limitReachedDate = -1
  /\ isExecuting = FALSE
  /\ executionHistory = <<>>
  /\ pc = [c \in Callers |-> "idle"]
  /\ cur = [c \in Callers |-> NoOpportunity]
  /\ ethBalance = [c \in Callers |-> 0]
  /\ trace = [c \in Callers |-> <<>>]
  /\ lastReturn = NoReturn
  /\ bestCall = NoBestCall
  /\ scoreCall = NoScoreCall
  /\ profitCall = NoProfitCall
  /\ statsCall = NoStatsCall
  /\ snapshotCall = NoSnapshotCall
  /\ everWritten = {}
  /\ InitWallet
  /\ InitLoops
  /\ priceCache = NoPrices
  /\ cycle = NoCycle

SpecExecutor == InitExecutor /\ [][Next]_vars

\* ------------------------------------------- a daily limit above one
\* DAILY_TRANSACTION_LIMIT is read from the environment (default 10): here it
\* leaves room for a second execution on the same day
RepeatConfigs == [networkMode : {"testnet"}, enableSecurityChecks : {TRUE},
                  enableSimulation : BOOLEAN,
                  dailyTransactionLimit : {DailyTransactionLimit + 1}]

InitRepeat ==
  /\ now = 0
  /\ config \in RepeatConfigs
  /\ signer = FALSE
  /\ isRunning = FALSE
  /\ opportunities = <<>>
  /\ analysisPc = 0
  /\ newOpportunities = <<>>
  /\ dailyTransactionCount = 0
  /\ lastResetDate = Today(0)
  /\ limitReachedDate = -1
  /\ isExecuting = FALSE
  /\ executionHistory = <<>>
  /\ pc = [c \in Callers |-> "idle"]
  /\ cur = [c \in Callers |-> NoOpportunity]
  /\ ethBalance = [c \in Callers |-> 0]
  /\ trace = [c \in Callers |-> <<>>]
  /\ lastReturn = NoReturn
  /\ bestCall = NoBestCall
  /\ scoreCall = NoScoreCall
  /\ profitCall = NoProfitCall
  /\ statsCall = NoStatsCall
  /\ snapshotCall = NoSnapshotCall
  /\ everWritten = {}
  /\ InitWallet
  /\ InitLoops
  /\ priceCache = NoPrices
  /\ cycle = NoCycle

SpecRepeat == InitRepeat /\ [][Next]_vars

\* ------------------------------------------- the security gate on drawn inputs
\* performSecurityChecks applied to opportunities whose age and profit meet the
\* limits exactly or miss them by one, with every outcome of the fee query
GateClockValues == {UsableAgeMs, UsableAgeMs + 1}
GateProfits == {MinProfitPercentage - 1, MinProfitPercentage}
GateOpportunities ==
  [id : {<<1, 1>>}, timestamp : {0}, profitPercentage : GateProfits,
   confidence : {MinConfidence}, gasCost : GasCostValues]

InitGate ==
  /\ now \in GateClockValues
  /\ config \in SecurityConfigs
  /\ signer = FALSE
  /\ isRunning = FALSE
  /\ opportunities = <<>>
  /\ analysisPc = 0
  /\ newOpportunities = <<>>
  /\ dailyTransactionCount \in {0, DailyTransactionLimit}
  /\ lastResetDate = Today(0)
  /\ limitReachedDate = -1
  /\ isExecuting = FALSE
  /\ executionHistory = <<>>
  /\ pc = [c \in Callers |-> "idle"]
  /\ cur = [c \in Callers |-> NoOpportunity]
  /\ ethBalance = [c \in Callers |-> 0]
  /\ trace = [c \in Callers |-> <<>>]
  /\ lastReturn = NoReturn
  /\ bestCall = NoBestCall
  /\ scoreCall = NoScoreCall
  /\ profitCall = NoProfitCall
  /\ statsCall = NoStatsCall
  /\ snapshotCall = NoSnapshotCall
  /\ everWritten = {}
  /\ InitWallet
  /\ InitLoops
  /\ priceCache = NoPrices
  /\ cycle = NoCycle

GateTick ==
  /\ now' \in GateClockValues \ {now}
  /\ UNCHANGED <<config, signer, analyzerVars, counterVars, executorVars, lastReturn>>
  /\ UNCHANGED detectorVars

\* performSecurityChecks(opportunity): what it was given, what its collaborators
\* answered, and the reason it failed with or "passed"
CallPerformSecurityChecks ==
  /\ \E opp \in GateOpportunities, providerOk \in BOOLEAN, feeData \in GateFeeData,
        liquidity \in BOOLEAN :
       lastReturn' = [op |-> "performSecurityChecks", opportunity |-> opp, now |-> now,
                      providerOk |-> providerOk, feeData |-> feeData,
                      liquidity |-> liquidity,
                      result |-> performSecurityChecks(opp, providerOk, feeData, liquidity)]
  /\ IF validateSecurityChecks(config)
     THEN /\ dailyTransactionCount' =
               canExecuteTransactionCount(dailyTransactionCount, lastResetDate, now)
          /\ lastResetDate' = Today(now)
     ELSE UNCHANGED <<dailyTransactionCount, lastResetDate>>
  /\ UNCHANGED <<now, config, signer, analyzerVars, limitReachedDate, executorVars>>
  /\ UNCHANGED detectorVars

NextGate ==
  \/ GateTick
  \/ CallPerformSecurityChecks

SpecGate == InitGate /\ [][NextGate]_vars

\* ------------------------------------------- the store on drawn contents
\* getBestOpportunities and updateOpportunityCache applied to the stores that
\* detection cycles can have left behind, at the clock readings where the ages of
\* the entries meet the 60 s and 300 s limits
StoreClockValues == {300000, 330000}
StoreTimestamps == {0, 30000, 270000, 300000}
StoredProfits == {MinProfitPercentage, 2 * MinProfitPercentage}
StoredConfidences == {MinConfidence, 2 * MinConfidence}

\* the stores of n entries: entry i was inserted i-th
StoresOf(n) ==
  {[i \in 1..n |-> Candidate(i, f[i][1], f[i][2], f[i][3], 2)] :
     f \in [1..n -> StoreTimestamps \X StoredProfits \X StoredConfidences]}

InitStore ==
  /\ now \in StoreClockValues
  /\ config \in Configs
  /\ signer = FALSE
  /\ isRunning = TRUE
  /\ opportunities \in UNION {StoresOf(n) : n \in 0..MaxRankStore}
  /\ analysisPc = 0
  /\ newOpportunities = <<>>
  /\ dailyTransactionCount = 0
  /\ lastResetDate = Today(now)
  /\ limitReachedDate = -1
  /\ isExecuting = FALSE
  /\ executionHistory = <<>>
  /\ pc = [c \in Callers |-> "idle"]
  /\ cur = [c \in Callers |-> NoOpportunity]
  /\ ethBalance = [c \in Callers |-> 0]
  /\ trace = [c \in Callers |-> <<>>]
  /\ lastReturn = NoReturn
  /\ bestCall = NoBestCall
  /\ scoreCall = NoScoreCall
  /\ profitCall = NoProfitCall
  /\ statsCall = NoStatsCall
  /\ snapshotCall = NoSnapshotCall
  /\ everWritten = {}
  /\ InitWallet
  /\ InitLoops
  /\ priceCache = NoPrices
  /\ cycle = NoCycle

\* getBestOpportunities(limit), as the commands and the test script call it
CallGetBestOpportunities(limit) ==
  /\ bestCall' = [limit |-> limit, now |-> now, store |-> opportunities,
                  list |-> getBestOpportunities(opportunities, now, limit)]
  /\ UNCHANGED <<now, config, signer, analyzerVars, counterVars, executorVars, lastReturn,
                 priceCache, cycle, scoreCall, callVars>>

NextStore ==
  \/ AnalyzeMock
  \/ \E limit \in 1..MaxRankStore : CallGetBestOpportunities(limit)

SpecStore == InitStore /\ [][NextStore]_vars

\* ------------------------------------------- the execution history in detail
\* Profits and gas costs in billionths of the native unit, efficiency in percent.
SettlementGasPrice == 20
RecordSpacingMs == 5000
HistoryStartMs == 600000
HistoryLengths == {0, 1, 98, 99, 100}
HistoryClockValues ==
  {HistoryStartMs, HistoryStartMs + RecordSpacingMs, HistoryStartMs + 2 * RecordSpacingMs,
   DayMs + 250000, 2 * DayMs}
EstimatedProfits == {1000000, 12380000}
Efficiencies == {90, 94}
GasUsedValues == {200000, 299999}

calculateActualProfitUnfloored(estimatedProfit, efficiency, gasUsed) ==
  (estimatedProfit * efficiency) \div 100 - gasUsed * SettlementGasPrice

\* calculateActualProfit: Math.max(0, estimatedProfit * efficiency - actualGasCost)
calculateActualProfit(estimatedProfit, efficiency, gasUsed) ==
  IF (estimatedProfit * efficiency) \div 100 - gasUsed * SettlementGasPrice > 0
  THEN (estimatedProfit * efficiency) \div 100 - gasUsed * SettlementGasPrice
  ELSE 0

\* executeArbitrageTransaction: what it returns
TransactionResult(t) == [txHash |-> "0x", timestamp |-> t]

\* updateExecutionHistory: success: result.success || false
SuccessOf(result) == IF "success" \in DOMAIN result THEN result.success ELSE FALSE

\* updateExecutionHistory: the record, with the efficiency and the gas that the
\* settlement drew
Execution(estimatedProfit, efficiency, gasUsed, result, actualProfit, t) ==
  [id |-> <<"exec", t>>, timestamp |-> t,
   opportunity |-> [estimatedProfit |-> estimatedProfit],
   efficiency |-> efficiency, gasUsed |-> gasUsed,
   result |-> result, actualProfit |-> actualProfit, success |-> SuccessOf(result)]

\* a history of n executions, five seconds apart
HistoryOf(n) ==
  [k \in 1..n |->
     Execution(12380000, 90, 200000, TransactionResult(k * RecordSpacingMs),
               calculateActualProfit(12380000, 90, 200000), k * RecordSpacingMs)]

RECURSIVE SumActualProfit(_)
SumActualProfit(executions) ==
  IF executions = <<>> THEN 0
  ELSE Head(executions).actualProfit + SumActualProfit(Tail(executions))

\* getExecutionStats
getExecutionStats(history, busy, t) ==
  LET IsRecent(exec) == t - exec.timestamp < DayMs
      IsSuccessful(exec) == exec.success
      recentExecutions == SelectSeq(history, IsRecent)
      successfulExecutions == SelectSeq(recentExecutions, IsSuccessful)
      totalProfit == SumActualProfit(successfulExecutions)
  IN [isExecuting |-> busy,
      totalExecutions |-> Len(history),
      recentExecutions |-> Len(recentExecutions),
      successfulExecutions |-> Len(successfulExecutions),
      successRate |-> IF Len(recentExecutions) > 0
                      THEN (Len(successfulExecutions) * 100) \div Len(recentExecutions)
                      ELSE 0,
      totalProfit24h |-> totalProfit,
      averageProfit |-> IF Len(successfulExecutions) > 0
                        THEN totalProfit \div Len(successfulExecutions) ELSE 0]

InitHistory ==
  /\ now = HistoryStartMs
  /\ config \in {c \in Configs : c.enableSecurityChecks /\ c.enableSimulation}
  /\ signer = TRUE
  /\ isRunning = TRUE
  /\ opportunities = <<>>
  /\ analysisPc = 0
  /\ newOpportunities = <<>>
  /\ dailyTransactionCount = 0
  /\ lastResetDate = Today(now)
  /\ limitReachedDate = -1
  /\ isExecuting = FALSE
  /\ executionHistory \in {HistoryOf(n) : n \in HistoryLengths}
  /\ pc = [c \in Callers |-> "idle"]
  /\ cur = [c \in Callers |-> NoOpportunity]
  /\ ethBalance = [c \in Callers |-> 0]
  /\ trace = [c \in Callers |-> <<>>]
  /\ lastReturn = NoReturn
  /\ bestCall = NoBestCall
  /\ priceCache = NoPrices
  /\ cycle = NoCycle
  /\ scoreCall = NoScoreCall
  /\ profitCall = NoProfitCall
  /\ statsCall = NoStatsCall
  /\ snapshotCall = NoSnapshotCall
  /\ everWritten = {}
  /\ InitWallet
  /\ InitLoops

\* the clock moves on
HistoryTick ==
  /\ \E t \in HistoryClockValues : t > now /\ now' = t
  /\ UNCHANGED <<config, signer, analyzerVars, counterVars, executorVars, lastReturn,
                 detectorVars>>

\* the end of a run of executeArbitrage, at least five seconds of waits after the
\* run before it: settlement, record, counter
RecordExecution(estimatedProfit, efficiency, gasUsed) ==
  /\ dailyTransactionCount < MaxRecorded
  /\ IF executionHistory = <<>> THEN TRUE
     ELSE executionHistory[Len(executionHistory)].timestamp + RecordSpacingMs <= now
  /\ executionHistory' =
       pushExecution(executionHistory,
                     Execution(estimatedProfit, efficiency, gasUsed, TransactionResult(now),
                               calculateActualProfit(estimatedProfit, efficiency, gasUsed),
                               now))
  /\ dailyTransactionCount' = dailyTransactionCount + 1
  /\ UNCHANGED <<now, config, signer, analyzerVars, lastResetDate, limitReachedDate,
                 isExecuting, pc, cur, ethBalance, trace, lastReturn, detectorVars>>

CallGetExecutionStats ==
  /\ statsCall' = [called |-> TRUE, now |-> now, history |-> executionHistory,
                   stats |-> getExecutionStats(executionHistory, isExecuting, now)]
  /\ UNCHANGED <<now, config, signer, analyzerVars, counterVars, executorVars, lastReturn,
                 bestCall, priceCache, cycle, scoreCall, profitCall, snapshotCall,
                 everWritten, walletVars, loopVars>>

NextHistory ==
  \/ HistoryTick
  \/ \E estimatedProfit \in EstimatedProfits, efficiency \in Efficiencies,
        gasUsed \in GasUsedValues :
       RecordExecution(estimatedProfit, efficiency, gasUsed)
  \/ CallGetExecutionStats

SpecHistory == InitHistory /\ [][NextHistory]_vars

\* ------------------------------------------------- the recent executions
\* the limits GET /api/history can pass on (parseInt of the query's limit)
RecentLimits == {0, 1, 2, 101}

\* Array.prototype.slice(start): a negative start counts from the end, and -0 is 0
slice(array, start) ==
  LET from == IF start < 0
              THEN (IF Len(array) + start > 0 THEN Len(array) + start ELSE 0)
              ELSE (IF start < Len(array) THEN start ELSE Len(array))
  IN SubSeq(array, from + 1, Len(array))

\* Array.prototype.reverse, on the copy that slice made
reverse(array) == [i \in 1..Len(array) |-> array[Len(array) - i + 1]]

\* getRecentExecutions: the fields of an execution it returns
RecentExecution(exec) ==
  [id |-> exec.id, timestamp |-> exec.timestamp, actualProfit |-> exec.actualProfit,
   success |-> exec.success, txHash |-> exec.result.txHash]

\* getRecentExecutions(limit): slice(-limit).reverse().map(...)
getRecentExecutions(history, limit) ==
  LET recent == reverse(slice(history, 0 - limit))
  IN [i \in 1..Len(recent) |-> RecentExecution(recent[i])]

\* GET /api/history?limit=n, and the "history" command
CallGetRecentExecutions(limit) ==
  /\ lastReturn' = [op |-> "getRecentExecutions", limit |-> limit,
                    list |-> getRecentExecutions(executionHistory, limit)]
  /\ UNCHANGED <<now, config, signer, analyzerVars, counterVars, executorVars,
                 detectorVars>>

NextRecent ==
  \/ HistoryTick
  \/ \E estimatedProfit \in EstimatedProfits, efficiency \in Efficiencies,
        gasUsed \in GasUsedValues :
       RecordExecution(estimatedProfit, efficiency, gasUsed)
  \/ \E limit \in RecentLimits : CallGetRecentExecutions(limit)

SpecRecent == InitHistory /\ [][NextRecent]_vars

\* ------------------------------------------------- detection in detail
\* Fixed point: prices in hundredths, amounts and gas costs in millionths of the
\* native unit, profits in the product of the two, percentages in tenths of a
\* percent, confidence in points.  Sample ages are whole seconds, so that the
\* staleness penalty (age - 30000) / 1000 is a whole number of points.
MaxSampleAge == 30000
MaxPenalty == 50
ReliableBonus == 10
BaseAmount == 50000
ScaleCoefficient == 10
ScaleCap == 2
MaxTransactionAmount == 100000
SlippageTolerance == 1
FallbackGasCost == 12000
DefaultGasPrice == 20
GasUnitsPerGwei == 371
MinusInfinity == 0 - 1000000000

Min(a, b) == IF a < b THEN a ELSE b
Max(a, b) == IF a > b THEN a ELSE b

Venues == <<"uniswap", "quickswap", "sushiswap">>
MockVenues == <<"QuickSwap", "SushiSwap", "Uniswap">>
ReliableDexes == {"uniswap", "sushiswap", "pancakeswap"}
DetectClockValues == {90000, 150000}
SampleTimestamps == {0, 45000, 105000}
SamplePrices == {100, 105, 120}
FeeDataOutcomes == {"throws", "null"}

Sample(dex, price, source, timestamp) ==
  [dex |-> dex, price |-> price, source |-> source, timestamp |-> timestamp]

\* a venue the price feed got no price from has no entry
Absent == Sample("none", 0, "none", 0)

\* getDexPrices outside testnet mode: an on-chain sample, with a price above zero,
\* of every venue that answered
OnChainSamples(dex) ==
  {Sample(dex, price, "on-chain", t) : price \in SamplePrices, t \in SampleTimestamps}
  \cup {Absent}

\* the last entry: a third venue, an API price, or nothing
LastSamples ==
  {Sample(Venues[3], 120, "on-chain", 105000), Sample("coingecko", 100, "api", 105000), Absent}

IsPresent(sample) == sample # Absent

\* generateMockPrices: in testnet mode every entry is a simulated price
MockSamples ==
  <<Sample(MockVenues[1], 100, "mock-testnet", 45000),
    Sample(MockVenues[2], 105, "mock-testnet", 45000),
    Sample(MockVenues[3], 120, "mock-testnet", 45000)>>

\* the price caches of one (network, token)
PriceCaches ==
  {[network |-> network, samples |-> SelectSeq(<<s1, s2, s3>>, IsPresent)] :
     network \in {"ethereum", "polygon"}, s1 \in OnChainSamples(Venues[1]),
     s2 \in OnChainSamples(Venues[2]), s3 \in LastSamples}
  \cup {[network |-> network, samples |-> MockSamples] : network \in {"ethereum", "polygon"}}
  \cup {NoPrices}

\* analyzeTokenArbitrage: the samples it keeps
IsQualifying(sample) == sample.price > 0 /\ sample.source = "on-chain"

dexPrices(cache) == SelectSeq(cache.samples, IsQualifying)

\* analyzeAllOpportunities: hasAnyRealPrices
hasAnyRealPrices(cache) == \E i \in 1..Len(cache.samples) : IsQualifying(cache.samples[i])

\* analyzeTokenArbitrage: the venue pairs in the order of its two loops
RECURSIVE PairsFrom(_, _, _)
PairsFrom(n, i, j) ==
  IF i >= n THEN <<>>
  ELSE IF j > n THEN PairsFrom(n, i + 1, i + 2)
       ELSE <<(<<i, j>>)>> \o PairsFrom(n, i, j + 1)

VenuePairs(cache) ==
  IF Len(dexPrices(cache)) < 2 THEN <<>> ELSE PairsFrom(Len(dexPrices(cache)), 1, 2)

BuyDexFirst(dex1, dex2) == dex1

\* analyzeTokenArbitrage: buy at the cheaper venue, sell at the dearer one
BuyDex(dex1, dex2) == IF dex1.price < dex2.price THEN dex1 ELSE dex2

SellDex(dex1, dex2) == IF dex1.price < dex2.price THEN dex2 ELSE dex1

AgePenaltyUncapped(age) ==
  IF age > MaxSampleAge THEN (age - MaxSampleAge) \div 1000 ELSE 0

\* calculateConfidenceScore: the penalty of one side
AgePenalty(age) ==
  IF age > MaxSampleAge THEN Min(MaxPenalty, (age - MaxSampleAge) \div 1000) ELSE 0

\* calculateConfidenceScore: the bonus of one side
Bonus(dex) == IF dex \in ReliableDexes THEN ReliableBonus ELSE 0

ClampScoreFromBelow(score) == Max(0, score)

\* calculateConfidenceScore: Math.max(0, Math.min(100, score))
ClampScore(score) == Max(0, Min(100, score))

calculateConfidenceScore(buyDex, sellDex, t) ==
  ClampScore(100 - AgePenalty(t - buyDex.timestamp) - AgePenalty(t - sellDex.timestamp)
                 + Bonus(buyDex.dex) + Bonus(sellDex.dex))

\* calculateConfidenceScore on drawn samples and clock readings
ScoreDexes == {"uniswap", "quickswap", "coingecko"}
ScoreTimestamps == {0, 10000, 20000, 55000, 69000, 70000, 100000, 115000}
ScoreClockValues == {100000, 10000000}
ScoreSamples == [dex : ScoreDexes, timestamp : ScoreTimestamps]

InitScore ==
  /\ now \in ScoreClockValues
  /\ config \in {c \in Configs : c.enableSecurityChecks /\ c.enableSimulation}
  /\ signer = FALSE
  /\ isRunning = TRUE
  /\ opportunities = <<>>
  /\ analysisPc = 0
  /\ newOpportunities = <<>>
  /\ dailyTransactionCount = 0
  /\ lastResetDate = Today(now)
  /\ limitReachedDate = -1
  /\ isExecuting = FALSE
  /\ executionHistory = <<>>
  /\ pc = [c \in Callers |-> "idle"]
  /\ cur = [c \in Callers |-> NoOpportunity]
  /\ ethBalance = [c \in Callers |-> 0]
  /\ trace = [c \in Callers |-> <<>>]
  /\ lastReturn = NoReturn
  /\ bestCall = NoBestCall
  /\ priceCache = NoPrices
  /\ cycle = NoCycle
  /\ scoreCall = NoScoreCall
  /\ profitCall = NoProfitCall
  /\ statsCall = NoStatsCall
  /\ snapshotCall = NoSnapshotCall
  /\ everWritten = {}
  /\ InitWallet
  /\ InitLoops

CallCalculateConfidenceScore(buyDex, sellDex) ==
  /\ scoreCall' = [called |-> TRUE, buyDex |-> buyDex, sellDex |-> sellDex, now |-> now,
                   confidence |-> calculateConfidenceScore(buyDex, sellDex, now)]
  /\ UNCHANGED <<now, config, signer, analyzerVars, counterVars, executorVars, lastReturn,
                 bestCall, priceCache, cycle, callVars>>

NextScore == \E buyDex \in ScoreSamples, sellDex \in ScoreSamples :
               CallCalculateConfidenceScore(buyDex, sellDex)

SpecScore == InitScore /\ [][NextScore]_vars

calculateOptimalTradeSizeNoneAboveCap(buyPrice, sellPrice) ==
  IF ScaleCoefficient * (sellPrice - buyPrice) > ScaleCap * buyPrice THEN 0
  ELSE (BaseAmount * ScaleCoefficient * (sellPrice - buyPrice)) \div buyPrice

\* calculateOptimalTradeSize: min(base * min(profitRatio * 10, 2), max)
calculateOptimalTradeSize(buyPrice, sellPrice) ==
  Min(Min((BaseAmount * ScaleCoefficient * (sellPrice - buyPrice)) \div buyPrice,
          BaseAmount * ScaleCap),
      MaxTransactionAmount)

estimateGasCostsDefaultOnFailure(feeData) == DefaultGasPrice * GasUnitsPerGwei

\* estimateGasCosts: totalGasCost at the default gas price when the fee data has
\* none, the fallback when the fee query throws
estimateGasCosts(feeData) ==
  IF feeData = "throws" THEN FallbackGasCost
  ELSE DefaultGasPrice * GasUnitsPerGwei

\* net / (amount * price) * 100, in tenths of a percent
Percentage(net, amount, price) ==
  IF amount * price = 0 THEN (IF net < 0 THEN MinusInfinity ELSE 0 - MinusInfinity)
  ELSE (net * 1000) \div (amount * price)

\* calculateArbitrageOpportunity: optimalAmount * priceDifference
grossProfit(optimalAmount, priceDifference) == optimalAmount * priceDifference

slippageCostOfTolerance(gross) == gross * SlippageTolerance

\* calculateArbitrageOpportunity: grossProfit * (slippageTolerance / 100)
slippageCost(gross) == (gross * SlippageTolerance) \div 100

\* calculateArbitrageOpportunity: grossProfit - gasCosts.totalGasCost - slippageCost
netProfit(gross, totalGasCost, slippage) == gross - totalGasCost - slippage

\* gas costs are in millionths, profits in hundred-millionths
GasCostInProfitUnits(totalGasCost) == totalGasCost * 100

\* calculateArbitrageOpportunity, stamped at t once the gas estimate is in
calculateArbitrageOpportunity(network, buyDex, sellDex, feeData, t) ==
  LET priceDifference == sellDex.price - buyDex.price
      optimalAmount == Min(MaxTransactionAmount,
                           calculateOptimalTradeSize(buyDex.price, sellDex.price))
      totalGasCost == estimateGasCosts(feeData)
      gross == grossProfit(optimalAmount, priceDifference)
      net == netProfit(gross, GasCostInProfitUnits(totalGasCost), slippageCost(gross))
  IN [id |-> <<network, buyDex.dex, sellDex.dex, t>>,
      timestamp |-> t,
      profitPercentage |-> Percentage(net, optimalAmount, buyDex.price),
      confidence |-> calculateConfidenceScore(buyDex, sellDex, t),
      gasCost |-> totalGasCost,
      fromDex |-> buyDex.dex, toDex |-> sellDex.dex,
      buyPrice |-> buyDex.price, sellPrice |-> sellDex.price,
      optimalAmount |-> optimalAmount,
      isMock |-> FALSE]

\* the draws of one round of generateMockArbitrageOpportunities
MockDraws ==
  [fromDex : {"QuickSwap"}, toDex : {"Uniswap"}, basePrice : {100}, differencePercent : {1, 6},
   optimalAmount : {100000, 350000}, gasCosts : {5000}, confidence : {80}]

\* generateMockArbitrageOpportunities: the opportunity of round i
MockOpportunity(i, draw, t) ==
  LET priceDifference == (draw.differencePercent * draw.basePrice) \div 100
      gross == draw.optimalAmount * priceDifference
      slippage == gross \div 100
      net == gross - draw.gasCosts * 100 - slippage
  IN [id |-> <<"mock-polygon", draw.fromDex, draw.toDex, t, i>>,
      timestamp |-> t + i * 1000,
      profitPercentage |-> Percentage(net, draw.optimalAmount, draw.basePrice),
      confidence |-> draw.confidence,
      gasCost |-> draw.gasCosts,
      fromDex |-> draw.fromDex, toDex |-> draw.toDex,
      buyPrice |-> draw.basePrice, sellPrice |-> draw.basePrice + priceDifference,
      optimalAmount |-> draw.optimalAmount,
      isMock |-> TRUE]

\* generateMockArbitrageOpportunities: the rounds whose net profit is above the minimum
RECURSIVE MockRounds(_, _, _)
MockRounds(draws, i, t) ==
  IF draws = <<>> THEN <<>>
  ELSE LET opp == MockOpportunity(i, Head(draws), t)
       IN (IF opp.profitPercentage > MinProfitPercentage THEN <<opp>> ELSE <<>>)
          \o MockRounds(Tail(draws), i + 1, t)

generateMockArbitrageOpportunities(t) ==
  {MockRounds(draws, 0, t) : draws \in [1..MaxMockRounds -> MockDraws]}

\* the profit computation on drawn inputs.  For a given trade size: amounts and
\* profits in ten-thousandths, prices in units.  Through the detector: the units of
\* the detection cycle.
ProfitAmounts == {125, 1000}
ProfitBuyPrices == {1, 2000}
ProfitSpreads == {0, 1, 50, 400}
ProfitGasCosts == {74, 100, 120}
DetectorBuyPrices == {80, 100}
DetectorSpreads == 1..25

\* calculateArbitrageOpportunity from the trade size on
Profitability(optimalAmount, buyPrice, sellPrice, totalGasCost) ==
  LET gross == grossProfit(optimalAmount, sellPrice - buyPrice)
      net == netProfit(gross, totalGasCost, slippageCost(gross))
  IN [buyPrice |-> buyPrice, sellPrice |-> sellPrice, optimalAmount |-> optimalAmount,
      gasCost |-> totalGasCost, grossProfit |-> gross, slippageCost |-> slippageCost(gross),
      netProfit |-> net, netProfitPercentage |-> Percentage(net, optimalAmount, buyPrice)]

InitProfit ==
  /\ now = 0
  /\ config \in {c \in Configs : c.enableSecurityChecks /\ c.enableSimulation}
  /\ signer = FALSE
  /\ isRunning = TRUE
  /\ opportunities = <<>>
  /\ analysisPc = 0
  /\ newOpportunities = <<>>
  /\ dailyTransactionCount = 0
  /\ lastResetDate = Today(now)
  /\ limitReachedDate = -1
  /\ isExecuting = FALSE
  /\ executionHistory = <<>>
  /\ pc = [c \in Callers |-> "idle"]
  /\ cur = [c \in Callers |-> NoOpportunity]
  /\ ethBalance = [c \in Callers |-> 0]
  /\ trace = [c \in Callers |-> <<>>]
  /\ lastReturn = NoReturn
  /\ bestCall = NoBestCall
  /\ priceCache = NoPrices
  /\ cycle = NoCycle
  /\ scoreCall = NoScoreCall
  /\ profitCall = NoProfitCall
  /\ statsCall = NoStatsCall
  /\ snapshotCall = NoSnapshotCall
  /\ everWritten = {}
  /\ InitWallet
  /\ InitLoops

CallProfitability(optimalAmount, buyPrice, spread, totalGasCost) ==
  /\ profitCall = NoProfitCall
  /\ profitCall' = [op |-> "profitability",
                    result |-> Profitability(optimalAmount, buyPrice, buyPrice + spread,
                                             totalGasCost)]
  /\ UNCHANGED <<now, config, signer, analyzerVars, counterVars, executorVars, lastReturn,
                 bestCall, priceCache, cycle, scoreCall, statsCall, snapshotCall,
                 everWritten, walletVars, loopVars>>

\* calculateArbitrageOpportunity on the same buy sample, gas estimate and clock,
\* for two spreads
CallDetectorTwice(buyPrice, spread1, spread2, feeData) ==
  /\ profitCall = NoProfitCall
  /\ profitCall' =
       [op |-> "detector",
        first |-> calculateArbitrageOpportunity("ethereum",
                    Sample(Venues[1], buyPrice, "on-chain", now),
                    Sample(Venues[3], buyPrice + spread1, "on-chain", now), feeData, now),
        second |-> calculateArbitrageOpportunity("ethereum",
                     Sample(Venues[1], buyPrice, "on-chain", now),
                     Sample(Venues[3], buyPrice + spread2, "on-chain", now), feeData, now)]
  /\ UNCHANGED <<now, config, signer, analyzerVars, counterVars, executorVars, lastReturn,
                 bestCall, priceCache, cycle, scoreCall, statsCall, snapshotCall,
                 everWritten, walletVars, loopVars>>

NextProfit ==
  \/ \E optimalAmount \in ProfitAmounts, buyPrice \in ProfitBuyPrices,
        spread \in ProfitSpreads, totalGasCost \in ProfitGasCosts :
       CallProfitability(optimalAmount, buyPrice, spread, totalGasCost)
  \/ \E buyPrice \in DetectorBuyPrices, spread1 \in DetectorSpreads,
        spread2 \in DetectorSpreads, feeData \in FeeDataOutcomes :
       CallDetectorTwice(buyPrice, spread1, spread2, feeData)

SpecProfit == InitProfit /\ [][NextProfit]_vars

InitDetect ==
  /\ now = 90000
  /\ config \in {c \in Configs : c.enableSecurityChecks /\ c.enableSimulation}
  /\ signer = FALSE
  /\ isRunning = TRUE
  /\ opportunities = <<>>
  /\ analysisPc = 0
  /\ newOpportunities = <<>>
  /\ dailyTransactionCount = 0
  /\ lastResetDate = Today(now)
  /\ limitReachedDate = -1
  /\ isExecuting = FALSE
  /\ executionHistory = <<>>
  /\ pc = [c \in Callers |-> "idle"]
  /\ cur = [c \in Callers |-> NoOpportunity]
  /\ ethBalance = [c \in Callers |-> 0]
  /\ trace = [c \in Callers |-> <<>>]
  /\ lastReturn = NoReturn
  /\ bestCall = NoBestCall
  /\ scoreCall = NoScoreCall
  /\ profitCall = NoProfitCall
  /\ statsCall = NoStatsCall
  /\ snapshotCall = NoSnapshotCall
  /\ everWritten = {}
  /\ InitWallet
  /\ InitLoops
  /\ priceCache \in PriceCaches
  /\ cycle = NoCycle

\* the end of analyzeAllOpportunities: rank, store, done
CycleDone(path, start, evaluated, batch) ==
  LET valid == filterAndRankOpportunities(batch, now)
  IN /\ opportunities' = updateOpportunityCache(opportunities, valid, now)
     /\ analysisPc' = 0
     /\ newOpportunities' = <<>>
     /\ cycle' = [path |-> path, input |-> priceCache,
                  start |-> start,
                  evaluated |-> evaluated, output |-> valid, done |-> TRUE,
                  count |-> cycle.count + 1,
                  last |-> IF cycle.done
                           THEN [path |-> cycle.path, input |-> cycle.input,
                                 start |-> cycle.start, evaluated |-> cycle.evaluated,
                                 output |-> cycle.output]
                           ELSE cycle.last]

\* analyzeAllOpportunities from its entry to its first gas estimate, or to its end
\* when it stores simulated opportunities or finds no venue pair
DetectStart ==
  /\ isRunning
  /\ analysisPc = 0
  /\ cycle.count < MaxCycles
  /\ \E mock \in IF priceCache.network = "polygon"
                      \/ (priceCache # NoPrices /\ ~hasAnyRealPrices(priceCache))
                   THEN generateMockArbitrageOpportunities(now) ELSE {<<>>} :
       IF mock # <<>> THEN CycleDone("mock", now, <<>>, mock)
       ELSE IF VenuePairs(priceCache) = <<>> THEN CycleDone("on-chain", now, <<>>, <<>>)
       ELSE /\ analysisPc' = 1
            /\ newOpportunities' = <<>>
            /\ cycle' = [path |-> "on-chain", input |-> priceCache, start |-> now,
                         evaluated |-> <<>>, output |-> <<>>, done |-> FALSE,
                         count |-> cycle.count,
                         last |-> IF cycle.done
                                  THEN [path |-> cycle.path, input |-> cycle.input,
                                        start |-> cycle.start,
                                        evaluated |-> cycle.evaluated,
                                        output |-> cycle.output]
                                  ELSE cycle.last]
            /\ UNCHANGED opportunities
  /\ UNCHANGED <<now, config, signer, isRunning, counterVars, executorVars, lastReturn,
                 bestCall, priceCache, scoreCall, callVars>>

\* the fee query of estimateGasCosts returns or throws: the venue pair's candidate
\* is built and kept when profitable enough; the next pair follows, or the end
DetectGasReturn ==
  /\ analysisPc \in 1..Len(VenuePairs(cycle.input))
  /\ ~cycle.done
  /\ \E feeData \in FeeDataOutcomes :
       LET pair == VenuePairs(cycle.input)[analysisPc]
           dex1 == dexPrices(cycle.input)[pair[1]]
           dex2 == dexPrices(cycle.input)[pair[2]]
           opportunity == calculateArbitrageOpportunity(cycle.input.network,
                            BuyDex(dex1, dex2), SellDex(dex1, dex2), feeData, now)
           emitted == opportunity.profitPercentage >= MinProfitPercentage
           batch == IF emitted THEN Append(newOpportunities, opportunity)
                    ELSE newOpportunities
           evaluated == Append(cycle.evaluated,
                               [dex1 |-> dex1, dex2 |-> dex2, feeData |-> feeData, at |-> now,
                                opportunity |-> opportunity, emitted |-> emitted])
       IN IF analysisPc = Len(VenuePairs(cycle.input))
          THEN CycleDone("on-chain", cycle.start, evaluated, batch)
          ELSE /\ analysisPc' = analysisPc + 1
               /\ newOpportunities' = batch
               /\ cycle' = [cycle EXCEPT !.evaluated = evaluated]
               /\ UNCHANGED opportunities
  /\ UNCHANGED <<now, config, signer, isRunning, counterVars, executorVars, lastReturn,
                 bestCall, priceCache, scoreCall, callVars>>

\* the clock moves on while a cycle waits or between cycles
DetectTick ==
  /\ \E t \in DetectClockValues : t > now /\ now' = t
  /\ UNCHANGED <<config, signer, analyzerVars, counterVars, executorVars, lastReturn,
                 detectorVars>>

NextDetect ==
  \/ DetectStart
  \/ DetectGasReturn
  \/ DetectTick

SpecDetect == InitDetect /\ [][NextDetect]_vars

\* ------------------------------------------------- the price cache in detail
\* priceCache and lastUpdate, the two maps of the price feed manager that are always
\* set together, as one entry per (network, token) key.  Prices in hundredths.
StaleDataAgeMs == 60000
FeedKeys == {<<"ethereum", "WETH">>, <<"polygon", "WMATIC">>}
FeedClockValues == {0, 60000, 120001}
FetchedPrices == {0, 100}
MockFeedPrices == {100, 101}
ApiSources == <<"coingecko", "oneinch">>

\* DEX_CONFIG: the venues of a network
DexConfig(network) ==
  IF network = "ethereum" THEN <<"uniswap", "sushiswap">>
  ELSE IF network = "bsc" THEN <<"pancakeswap">>
  ELSE <<"quickswap">>

\* generateMockPrices: networkDexes
networkDexes(network) ==
  IF network = "ethereum" THEN <<"Uniswap", "SushiSwap", "Balancer">>
  ELSE IF network = "bsc" THEN <<"PancakeSwap", "BiSwap", "Apeswap">>
  ELSE <<"QuickSwap", "SushiSwap", "Uniswap">>

\* what one refresh gets from each source it asks: 0 when the source has no price
\* (no liquidity, a failed call, no API key); in testnet mode no source is asked
Fetches(cfg, network) ==
  IF cfg.networkMode = "testnet"
  THEN {[source \in {DexConfig(network)[i] : i \in 1..Len(DexConfig(network))}
                      \cup {ApiSources[i] : i \in 1..Len(ApiSources)} |-> 0]}
  ELSE [{DexConfig(network)[i] : i \in 1..Len(DexConfig(network))}
          \cup {ApiSources[i] : i \in 1..Len(ApiSources)} -> FetchedPrices]

\* the prices generateMockPrices draws; outside testnet mode it is not called
MockFetches(cfg, network) ==
  IF cfg.networkMode = "testnet"
  THEN [{networkDexes(network)[i] : i \in 1..Len(networkDexes(network))} -> MockFeedPrices]
  ELSE {[venue \in {networkDexes(network)[i] : i \in 1..Len(networkDexes(network))} |-> 0]}

HasPrice(sample) == sample.price > 0

\* generateMockPrices: a simulated sample of every venue of the list
generateMockPrices(network, mock, t) ==
  [i \in 1..Len(networkDexes(network)) |->
     Sample(networkDexes(network)[i], mock[networkDexes(network)[i]], "mock-testnet", t)]

\* getDexPrices: simulated prices in testnet mode, else a sample of every venue
\* whose price is above zero
getDexPrices(cfg, network, fetched, mock, t) ==
  IF cfg.networkMode = "testnet" THEN generateMockPrices(network, mock, t)
  ELSE SelectSeq([i \in 1..Len(DexConfig(network)) |->
                    Sample(DexConfig(network)[i], fetched[DexConfig(network)[i]],
                           "on-chain", t)],
                 HasPrice)

\* getApiPrices: a sample of every API whose price is above zero
getApiPrices(fetched, t) ==
  SelectSeq([i \in 1..Len(ApiSources) |-> Sample(ApiSources[i], fetched[ApiSources[i]], "api", t)],
            HasPrice)

\* getAllPricesForToken: a new dictionary on every call
getAllPricesForToken(cfg, network, fetched, mock, t) ==
  IF cfg.networkMode # "testnet"
  THEN getDexPrices(cfg, network, fetched, mock, t) \o getApiPrices(fetched, t)
  ELSE getDexPrices(cfg, network, fetched, mock, t)

NoEntry == [present |-> FALSE, prices |-> <<>>, lastUpdate |-> 0]

EmptyPriceCache == [key \in FeedKeys |-> NoEntry]

\* priceCache.set(cacheKey, prices); lastUpdate.set(cacheKey, Date.now())
setPrices(cache, key, prices, t) ==
  [cache EXCEPT ![key] = [present |-> TRUE, prices |-> prices, lastUpdate |-> t]]

RECURSIVE SumPrices(_)
SumPrices(samples) ==
  IF samples = <<>> THEN 0 ELSE Head(samples).price + SumPrices(Tail(samples))

\* calculateAveragePrice
calculateAveragePrice(prices) ==
  LET validPrices == SelectSeq(prices, HasPrice)
  IN IF Len(validPrices) = 0 THEN 0 ELSE SumPrices(validPrices) \div Len(validPrices)

getTokenPricesFailsWhenStale(cache, key, t) ==
  IF ~cache[key].present \/ t - cache[key].lastUpdate > StaleDataAgeMs
  THEN [error |-> "NotFound", warned |-> FALSE]
  ELSE [error |-> "none", warned |-> FALSE,
        prices |-> cache[key].prices,
        averagePrice |-> calculateAveragePrice(cache[key].prices),
        lastUpdate |-> cache[key].lastUpdate,
        dataAge |-> t - cache[key].lastUpdate]

\* getTokenPrices: throws when the key has no entry, warns when the entry is older
\* than a minute
getTokenPrices(cache, key, t) ==
  IF ~cache[key].present
  THEN [error |-> "NotFound", warned |-> FALSE]
  ELSE [error |-> "none", warned |-> t - cache[key].lastUpdate > StaleDataAgeMs,
        prices |-> cache[key].prices,
        averagePrice |-> calculateAveragePrice(cache[key].prices),
        lastUpdate |-> cache[key].lastUpdate,
        dataAge |-> t - cache[key].lastUpdate]

InitFeed ==
  /\ now = 0
  /\ config \in {c \in SecurityConfigs : ~c.enableSecurityChecks /\ ~c.enableSimulation}
  /\ signer = FALSE
  /\ isRunning = FALSE
  /\ opportunities = <<>>
  /\ analysisPc = 0
  /\ newOpportunities = <<>>
  /\ dailyTransactionCount = 0
  /\ lastResetDate = Today(0)
  /\ limitReachedDate = -1
  /\ isExecuting = FALSE
  /\ executionHistory = <<>>
  /\ pc = [c \in Callers |-> "idle"]
  /\ cur = [c \in Callers |-> NoOpportunity]
  /\ ethBalance = [c \in Callers |-> 0]
  /\ trace = [c \in Callers |-> <<>>]
  /\ lastReturn = NoReturn
  /\ bestCall = NoBestCall
  /\ scoreCall = NoScoreCall
  /\ profitCall = NoProfitCall
  /\ statsCall = NoStatsCall
  /\ snapshotCall = NoSnapshotCall
  /\ everWritten = {}
  /\ InitWallet
  /\ InitLoops
  /\ priceCache = EmptyPriceCache
  /\ cycle = NoCycle

\* the clock moves on
FeedTick ==
  /\ \E t \in FeedClockValues : t > now /\ now' = t
  /\ UNCHANGED <<config, signer, analyzerVars, counterVars, executorVars, lastReturn,
                 detectorVars>>

\* updateTokenPrice (and loadTokenPrice): the prices of all sources, then the entry
\* of the key is set to the new dictionary
UpdateTokenPrice(key, fetched, mock) ==
  /\ priceCache' =
       setPrices(priceCache, key, getAllPricesForToken(config, key[1], fetched, mock, now), now)
  /\ everWritten' = everWritten \cup {key}
  /\ UNCHANGED <<now, config, signer, analyzerVars, counterVars, executorVars, lastReturn,
                 bestCall, cycle, scoreCall, profitCall, statsCall, snapshotCall,
                 walletVars, loopVars>>

\* getTokenPrices(networkName, tokenSymbol), as GET /api/prices calls it
CallGetTokenPrices(key) ==
  /\ ~snapshotCall.called
  /\ snapshotCall' = [called |-> TRUE, key |-> key,
                      outcome |-> getTokenPrices(priceCache, key, now)]
  /\ UNCHANGED <<now, config, signer, analyzerVars, counterVars, executorVars, lastReturn,
                 bestCall, priceCache, cycle, scoreCall, profitCall, statsCall,
                 everWritten, walletVars, loopVars>>

NextFeed ==
  \/ FeedTick
  \/ \E key \in FeedKeys :
       \E fetched \in Fetches(config, key[1]), mock \in MockFetches(config, key[1]) :
         UpdateTokenPrice(key, fetched, mock)
  \/ \E key \in FeedKeys : CallGetTokenPrices(key)

SpecFeed == InitFeed /\ [][NextFeed]_vars

\* ------------------------------------------- the timers and the passes in flight
\* The interval callbacks of the price feed and of the analyzer, with each refresh
\* pass followed key by key.  Outside testnet mode an update waits for the venues
\* and then for the price APIs, and what it stores carries the instants at which
\* each answer came; in testnet mode a whole pass runs without a suspension.
MaxPasses == 2
PriceUpdateInterval == 5000
AnalysisInterval == 10000
LoopClockValues == {0, PriceUpdateInterval, AnalysisInterval}

\* setInterval(callback, period) at instant t
setInterval(t) == [armed |-> TRUE, last |-> t]

\* the timer's period has passed since it was set or since it last fired
Due(timer, period) == timer.armed /\ now >= timer.last + period

\* the timer has fired at instant t
Fired(timer, t) == [timer EXCEPT !.last = t]
MaxPassesStarted == 3
PassSlots == 1..MaxPasses

NoPass == [seq |-> 0, initial |-> FALSE,
           at |-> [key \in FeedKeys |-> "none"], dex |-> [key \in FeedKeys |-> <<>>]]

\* a pass that has just called updateTokenPrice (or loadTokenPrice) for every key
NewPass(seq, initial) ==
  [seq |-> seq, initial |-> initial,
   at |-> [key \in FeedKeys |-> "dex"], dex |-> [key \in FeedKeys |-> <<>>]]

\* Promise.allSettled: every update of the pass has returned
Settled(pass) == \A key \in FeedKeys : pass.at[key] \in {"written", "failed"}

\* every source that is asked answers with a price
AllAnswer(cfg, network) ==
  CHOOSE fetched \in Fetches(cfg, network) :
    \A source \in DOMAIN fetched : fetched[source] = (IF cfg.networkMode = "testnet" THEN 0 ELSE 100)

AllMock(cfg, network) ==
  CHOOSE mock \in MockFetches(cfg, network) :
    \A venue \in DOMAIN mock : mock[venue] = (IF cfg.networkMode = "testnet" THEN 100 ELSE 0)

catchCycleErrorMissing(error) == "escaped"

\* the catch blocks of the interval callbacks, of updateTokenPrice and of
\* loadTokenPrice: the error is logged and goes no further
catchCycleError(error) == "caught"

\* an error raised in a cycle (for a refresh: in the pass of that start order)
CycleError(error, seq) == [outcome |-> catchCycleError(error), cycle |-> seq]

\* an error that no catch takes ends the process, and its timers with it
TimersAfter(outcome, timer) == IF outcome = "escaped" THEN NoTimer ELSE timer

InitLoopSpec ==
  /\ now = 0
  /\ config \in {c \in SecurityConfigs : c.enableSecurityChecks /\ c.enableSimulation}
  /\ signer = TRUE
  /\ isRunning = FALSE
  /\ opportunities = <<>>
  /\ analysisPc = 0
  /\ newOpportunities = <<>>
  /\ dailyTransactionCount = 0
  /\ lastResetDate = Today(0)
  /\ limitReachedDate = -1
  /\ isExecuting = FALSE
  /\ executionHistory = <<>>
  /\ pc = [c \in Callers |-> "idle"]
  /\ cur = [c \in Callers |-> NoOpportunity]
  /\ ethBalance = [c \in Callers |-> 0]
  /\ trace = [c \in Callers |-> <<>>]
  /\ lastReturn = NoReturn
  /\ bestCall = NoBestCall
  /\ scoreCall = NoScoreCall
  /\ profitCall = NoProfitCall
  /\ statsCall = NoStatsCall
  /\ snapshotCall = NoSnapshotCall
  /\ everWritten = {}
  /\ InitWallet
  /\ priceCache = EmptyPriceCache
  /\ cycle = NoCycle
  /\ feedRunning = FALSE
  /\ updateInterval = NoTimer
  /\ analysisInterval = NoTimer
  /\ passes = [p \in PassSlots |-> NoPass]
  /\ passesStarted = 0
  /\ lastWriter = [key \in FeedKeys |-> 0]
  /\ loopError = NoLoopError

LoopsUnchanged ==
  UNCHANGED <<config, signer, analysisPc, newOpportunities, counterVars, executorVars,
              lastReturn, bestCall, scoreCall, profitCall, statsCall, snapshotCall,
              walletVars>>

\* a whole pass without a suspension (testnet mode): every key whose update does
\* not throw is written, at the same instant
WriteAll(cache, failed, t) ==
  [key \in FeedKeys |->
     IF key \in failed THEN cache[key]
     ELSE [present |-> TRUE,
           prices |-> getAllPricesForToken(config, key[1], AllAnswer(config, key[1]),
                                           AllMock(config, key[1]), t),
           lastUpdate |-> t]]

\* a pass begins: in testnet mode it is over at once, else every key waits for
\* its venues
BeginPass(initial) ==
  /\ passesStarted < MaxPassesStarted
  /\ passesStarted' = passesStarted + 1
  /\ IF config.networkMode = "testnet"
     THEN \E failed \in SUBSET FeedKeys :
            /\ priceCache' = WriteAll(priceCache, failed, now)
            /\ everWritten' = everWritten \cup (FeedKeys \ failed)
            /\ lastWriter' = [key \in FeedKeys |->
                                IF key \in failed THEN lastWriter[key]
                                ELSE passesStarted + 1]
            /\ loopError' = IF failed = {} THEN loopError
                            ELSE CycleError("refresh", passesStarted + 1)
            /\ updateInterval' =
                 TimersAfter(loopError'.outcome,
                             IF initial THEN setInterval(now) ELSE Fired(updateInterval, now))
            /\ analysisInterval' = TimersAfter(loopError'.outcome, analysisInterval)
            /\ feedRunning' = IF initial THEN TRUE ELSE feedRunning
            /\ UNCHANGED passes
     ELSE /\ \E p \in PassSlots :
               /\ passes[p] = NoPass
               /\ \A q \in PassSlots : q < p => passes[q] # NoPass
               /\ passes' = [passes EXCEPT ![p] = NewPass(passesStarted + 1, initial)]
          /\ updateInterval' = IF initial THEN updateInterval ELSE Fired(updateInterval, now)
          /\ UNCHANGED <<priceCache, everWritten, lastWriter, loopError,
                         analysisInterval, feedRunning>>

\* priceFeeds.start(): initializePriceCache, then startPeriodicUpdates, then
\* isRunning = true
FeedStart ==
  /\ ~feedRunning
  /\ passesStarted = 0
  /\ BeginPass(TRUE)
  /\ UNCHANGED <<now, isRunning, opportunities, cycle>>
  /\ LoopsUnchanged

\* the callback of updateInterval: if (!this.isRunning) return; updateAllPrices
UpdateTimerFires ==
  /\ Due(updateInterval, PriceUpdateInterval)
  /\ feedRunning
  /\ BeginPass(FALSE)
  /\ UNCHANGED <<now, isRunning, opportunities, cycle>>
  /\ LoopsUnchanged

\* one update of pass p has returned: the slot is freed when all have, and the
\* pass that start() awaited arms the timer and sets isRunning
KeyReturned(p, pass, outcome) ==
  /\ passes' = [passes EXCEPT ![p] = IF Settled(pass) THEN NoPass ELSE pass]
  /\ updateInterval' =
       TimersAfter(outcome,
                   IF Settled(pass) /\ pass.initial THEN setInterval(now) ELSE updateInterval)
  /\ analysisInterval' = TimersAfter(outcome, analysisInterval)
  /\ feedRunning' = IF Settled(pass) /\ pass.initial THEN TRUE ELSE feedRunning

\* updateTokenPrice: priceCache.set(cacheKey, prices); lastUpdate.set(cacheKey, Date.now())
WriteKey(p, key, prices) ==
  /\ priceCache' = setPrices(priceCache, key, prices, now)
  /\ everWritten' = everWritten \cup {key}
  /\ lastWriter' = [lastWriter EXCEPT ![key] = passes[p].seq]
  /\ KeyReturned(p, [passes[p] EXCEPT !.at[key] = "written"], "none")
  /\ UNCHANGED loopError

\* getDexPrices of one update answers and the price API (its key is configured) is
\* asked, or the update throws and its catch logs it
DexReturn(p, key) ==
  /\ passes[p].at[key] = "dex"
  /\ \E throws \in BOOLEAN :
       IF throws
       THEN /\ loopError' = CycleError("refresh", passes[p].seq)
            /\ KeyReturned(p, [passes[p] EXCEPT !.at[key] = "failed"], loopError'.outcome)
            /\ UNCHANGED <<priceCache, everWritten, lastWriter>>
       ELSE /\ passes' =
                 [passes EXCEPT ![p].at[key] = "api",
                                ![p].dex[key] =
                                  getDexPrices(config, key[1], AllAnswer(config, key[1]),
                                               AllMock(config, key[1]), now)]
            /\ UNCHANGED <<priceCache, everWritten, lastWriter, loopError, updateInterval,
                           analysisInterval, feedRunning>>
  /\ UNCHANGED <<now, isRunning, opportunities, cycle, passesStarted>>
  /\ LoopsUnchanged

\* getApiPrices of one update answers: the venues' samples of before and the API
\* samples of now are stored together
ApiReturn(p, key) ==
  /\ passes[p].at[key] = "api"
  /\ WriteKey(p, key, passes[p].dex[key] \o getApiPrices(AllAnswer(config, key[1]), now))
  /\ UNCHANGED <<now, isRunning, opportunities, cycle, passesStarted>>
  /\ LoopsUnchanged

\* arbitrageAnalyzer.start(): the price feed must be running
LoopAnalyzerStart ==
  /\ ~isRunning
  /\ feedRunning
  /\ isRunning' = TRUE
  /\ analysisInterval' = setInterval(now)
  /\ UNCHANGED <<now, opportunities, cycle, priceCache, everWritten, feedRunning,
                 updateInterval, passes, passesStarted, lastWriter, loopError>>
  /\ LoopsUnchanged

DetectionMayRunWhenSettled == isRunning /\ \A p \in PassSlots : passes[p] = NoPass

\* the callback of analysisInterval looks at its own flag only
DetectionMayRun == isRunning

\* the keys the passes in flight have rewritten, and those they still have to
RewrittenKeys == {key \in FeedKeys : \E p \in PassSlots : passes[p].at[key] = "written"}
PendingKeys == {key \in FeedKeys : \E p \in PassSlots : passes[p].at[key] \in {"dex", "api"}}

\* what a detection cycle was given by getAllCurrentPrices
CacheRead == [path |-> "loop", rewritten |-> RewrittenKeys, pending |-> PendingKeys]

\* a detection cycle: getAllCurrentPrices, then (with a polygon entry in the cache)
\* the simulated candidates, ranked and stored; an error ends the cycle in the
\* callback's catch
DetectionCycle ==
  /\ Due(analysisInterval, AnalysisInterval)
  /\ DetectionMayRun
  /\ cycle' = CacheRead
  /\ \E throws \in BOOLEAN :
       IF throws
       THEN /\ loopError' = CycleError("analysis", 0)
            /\ UNCHANGED opportunities
       ELSE /\ UNCHANGED loopError
            /\ \E batch \in SeqsUpTo(MockCandidates, MaxBatch) :
                 /\ priceCache[<<"polygon", "WMATIC">>].present \/ batch = <<>>
                 /\ opportunities' =
                      updateOpportunityCache(opportunities,
                                             filterAndRankOpportunities(batch, now), now)
                 /\ Len(opportunities') <= MaxStore
  /\ updateInterval' = TimersAfter(loopError'.outcome, updateInterval)
  /\ analysisInterval' = TimersAfter(loopError'.outcome, Fired(analysisInterval, now))
  /\ UNCHANGED <<now, isRunning, priceCache, everWritten, feedRunning, passes,
                 passesStarted, lastWriter>>
  /\ LoopsUnchanged

\* the clock moves on, by one refresh interval
LoopTick ==
  /\ \E t \in LoopClockValues : t > now /\ now' = t
  /\ UNCHANGED <<isRunning, opportunities, cycle, priceCache, everWritten, loopVars>>
  /\ LoopsUnchanged

NextLoops ==
  \/ LoopTick
  \/ FeedStart
  \/ UpdateTimerFires
  \/ \E p \in PassSlots, key \in FeedKeys : DexReturn(p, key)
  \/ \E p \in PassSlots, key \in FeedKeys : ApiReturn(p, key)
  \/ LoopAnalyzerStart
  \/ DetectionCycle
  \/ AutoExecute
  \/ FeeDataReturn("auto")
  \/ BalanceReturn("auto")
  \/ TokenBalanceReturn("auto")
  \/ SubmitReturn("auto")
  \/ ConfirmReturn("auto")

SpecLoops == InitLoopSpec /\ [][NextLoops]_vars

\* ------------------------------------------------------------- properties
Range(s) == {s[i] : i \in 1..Len(s)}

InFlight == {c \in Callers : pc[c] # "idle"}

Pipeline == <<"security", "simulation", "funding", "submission", "confirmation",
              "settlement", "record">>

StageIndex(stage) == CHOOSE i \in 1..Len(Pipeline) : Pipeline[i] = stage

\* the stages are in pipeline order, without repetition
InPipelineOrder(stages) ==
  \A i, j \in 1..Len(stages) : i < j => StageIndex(stages[i]) < StageIndex(stages[j])

\* the stages the configuration asks for, up to the given one
StagesUpTo(last) ==
  LET Wanted(stage) == /\ StageIndex(stage) <= StageIndex(last)
                       /\ stage = "simulation" => config.enableSimulation
  IN SelectSeq(Pipeline, Wanted)

\* a step in which an executeArbitrage call arrives (from any of its three callers)
ExecuteCalled ==
  \/ ManualExecute
  \/ AutoExecute
  \/ \E id \in StoreIds :
       ApiExecute(id) /\ getOpportunityById(opportunities, now, id) # NoOpportunity

\* C1: at most one execution pipeline is between its start and its return at any
\* time, and a call rejected as busy has run no pipeline stage.
C1_SingleFlight ==
  /\ Cardinality(InFlight) <= 1
  /\ InFlight # {} => isExecuting
  /\ lastReturn.result = "busy" => lastReturn.stages = <<>>

\* a call was rejected while the manual caller's pipeline is in flight
C1_Witness ==
  /\ pc["manual"] # "idle"
  /\ lastReturn.result = "busy"

\* C2: an executeArbitrage call made while the executor is running returns busy
\* and changes nothing: no record, no counter change, no call started, flag still set.
C2_BusyNoEffect ==
  [][(isExecuting /\ ExecuteCalled) =>
       /\ lastReturn'.result = "busy"
       /\ isExecuting'
       /\ UNCHANGED <<executionHistory, dailyTransactionCount, lastResetDate, pc, cur,
                      trace, ethBalance, opportunities>>]_vars

\* a call was rejected while another one waits for its confirmation
C2_Witness ==
  /\ \E c \in Callers : pc[c] = "confirm"
  /\ isExecuting
  /\ lastReturn.result = "busy"

\* C3: every execution that starts running returns to idle, and the flag is never
\* left set once no call is in flight.
C3_ReturnsToIdle ==
  /\ [](InFlight = {} => ~isExecuting)
  /\ (isExecuting ~> ~isExecuting)

\* a pipeline has failed at a stage after the gate and the executor is idle again
C3_Witness ==
  /\ lastReturn.result \in {"Simulation", "FundingError", "InsufficientFunds", "Backend"}
  /\ ~isExecuting
  /\ InFlight = {}

\* C4: the stages run in pipeline order (simulation only when enabled); a failing
\* stage is the last one of its call; submission is reached only after the gate,
\* the simulation and a funding check that found at least twice the gas cost.
C4_StageOrder ==
  /\ \A c \in Callers :
       /\ InPipelineOrder(trace[c])
       /\ (pc[c] = "idle") <=> (trace[c] = <<>>)
       /\ pc[c] = "feeData" => trace[c] = StagesUpTo("security")
       /\ pc[c] \in {"balance", "tokenBalance"} => trace[c] = StagesUpTo("funding")
       /\ pc[c] = "submit" => trace[c] = StagesUpTo("submission")
       /\ pc[c] = "confirm" => trace[c] = StagesUpTo("confirmation")
       /\ "submission" \in Range(trace[c]) => ethBalance[c] >= 2 * cur[c].gasCost
  /\ lastReturn.result \in GateReasons => lastReturn.stages = StagesUpTo("security")
  /\ lastReturn.result = "Simulation" => lastReturn.stages = StagesUpTo("simulation")
  /\ lastReturn.result \in {"FundingError", "InsufficientFunds"} =>
       lastReturn.stages = StagesUpTo("funding")
  /\ lastReturn.result = "Backend" => lastReturn.stages = StagesUpTo("submission")
  /\ lastReturn.result = "success" => lastReturn.stages = StagesUpTo("record")

\* a call has just failed its funding check
C4_Witness ==
  /\ lastReturn.result = "InsufficientFunds"
  /\ lastReturn.stages = StagesUpTo("funding")

\* C5: every executeArbitrage call that is not rejected as busy appends exactly
\* one record to the execution history, whether it succeeds or fails.
C5_OneRecordPerAttempt ==
  [][(lastReturn' # lastReturn /\ lastReturn'.op = "executeArbitrage"
        /\ lastReturn'.result # "busy") =>
       Len(executionHistory') = Len(executionHistory) + 1]_vars

\* C6: on the day on which the counter has reached the daily limit, every further
\* call fails the gate with the daily-limit reason and starts no pipeline.
C6_LimitBlocksTheDay ==
  [][(limitReachedDate = Today(now) /\ ~isExecuting /\ ExecuteCalled) =>
       /\ lastReturn'.result = "DailyLimit"
       /\ \A c \in Callers : pc'[c] = "idle"]_vars

\* C7 as stated: the counter is reset once for every day boundary, so a second
\* boundary is never crossed before the reset of the first one; any other step
\* leaves the counter as it is or adds one.
C7_ResetOncePerBoundary ==
  [][/\ Today(now') - lastResetDate' <= 1
     /\ dailyTransactionCount' < dailyTransactionCount =>
          dailyTransactionCount' = 0 /\ lastResetDate' # lastResetDate
     /\ dailyTransactionCount' >= dailyTransactionCount =>
          dailyTransactionCount' \in {dailyTransactionCount, dailyTransactionCount + 1}]_vars

\* C7 amended: the counter is reset to 0 at most once per calendar day, by the
\* first security-gate check made on a new date; any other step leaves it as it is
\* or, when an execution succeeds, adds one.
C7_LazyReset ==
  [][/\ lastResetDate' # lastResetDate =>
          /\ lastResetDate' = Today(now)
          /\ lastResetDate' > lastResetDate
          /\ dailyTransactionCount' = 0
          /\ ExecuteCalled
     /\ lastResetDate' = lastResetDate =>
          dailyTransactionCount' \in {dailyTransactionCount, dailyTransactionCount + 1}
     /\ dailyTransactionCount' = dailyTransactionCount + 1 =>
          lastReturn'.result = "success"]_vars

\* the counter of an earlier day has been reset by a gate check
C7_Witness ==
  /\ lastResetDate = Today(now)
  /\ lastResetDate > 0
  /\ dailyTransactionCount = 0
  /\ executionHistory # <<>>

\* C8: the daily counter never exceeds the daily limit.
C8_CounterWithinLimit == dailyTransactionCount <= DailyTransactionLimit

\* the counter has reached the limit while a later call is being refused
C8_Witness ==
  /\ dailyTransactionCount = DailyTransactionLimit
  /\ lastReturn.result = "DailyLimit"

\* C9: getBestOpportunities returns no opportunity of age 60,000 ms or more.
C9_BestNeverStale ==
  lastReturn.op = "getBestOpportunities" =>
    \A i \in 1..Len(lastReturn.ages) : lastReturn.ages[i] < 60000

\* the store holds an entry that the latest getBestOpportunities call left out
C9_Witness ==
  /\ lastReturn.op = "getBestOpportunities"
  /\ opportunities # <<>>
  /\ \A i \in 1..Len(opportunities) : now - opportunities[i].timestamp >= 60000
  /\ lastReturn.ages = <<>>

\* C10: getOpportunityById returns an entry only while its age is below 60 s; for
\* a stale id it returns null and deletes the entry; for an unknown id it returns
\* null and leaves the store as it is.
C10_ByIdSameWindow ==
  [][\A id \in StoreIds :
       ApiGetOpportunity(id) =>
         IF ~MapHas(opportunities, id)
         THEN lastReturn'.result = "null" /\ opportunities' = opportunities
         ELSE IF now - MapGet(opportunities, id).timestamp < 60000
              THEN lastReturn'.result = "found" /\ opportunities' = opportunities
              ELSE lastReturn'.result = "null" /\ ~MapHas(opportunities', id)]_vars

\* C11: immediately after a store-maintenance pass the store holds no opportunity
\* whose age is 300,000 ms or more.
C11_NoEvictableAfterPass ==
  [][AnalyzeMock =>
       \A i \in 1..Len(opportunities') : now - opportunities'[i].timestamp < 300000]_vars

\* the place of a stored entry in insertion order
Position(m, opp) == CHOOSE i \in 1..Len(m) : m[i] = opp

\* C13: getBestOpportunities(limit) returns at most limit stored entries, in
\* non-increasing order of profit x confidence, entries of equal score in store
\* insertion order, and no usable entry it leaves out scores higher than one it returns.
C13_BestRanked ==
  LET list == bestCall.list
      store == bestCall.store
      score(opp) == opp.profitPercentage * opp.confidence
      usable(opp) == bestCall.now - opp.timestamp < 60000
  IN bestCall.limit > 0 =>
       /\ Len(list) <= bestCall.limit
       /\ \A i \in 1..Len(list) : list[i] \in Range(store)
       /\ \A i, j \in 1..Len(list) :
            i < j => /\ score(list[i]) >= score(list[j])
                     /\ score(list[i]) = score(list[j]) =>
                          Position(store, list[i]) < Position(store, list[j])
       /\ \A k \in 1..Len(store) :
            (usable(store[k]) /\ store[k] \notin Range(list)) =>
              \A i \in 1..Len(list) : score(store[k]) <= score(list[i])

\* a call with limit 2 returned two entries of equal score, in insertion order,
\* and left a usable entry out
C13_Witness ==
  /\ bestCall.limit = 2
  /\ Len(bestCall.list) = 2
  /\ bestCall.list[1].profitPercentage # bestCall.list[2].profitPercentage
  /\ bestCall.list[1].profitPercentage * bestCall.list[1].confidence
       = bestCall.list[2].profitPercentage * bestCall.list[2].confidence
  /\ \E k \in 1..Len(bestCall.store) :
       /\ bestCall.now - bestCall.store[k].timestamp < 60000
       /\ bestCall.store[k] \notin Range(bestCall.list)


\* C12: every opportunity a detection cycle puts into the store has, at the moment
\* it is put there, a net profit percentage of at least the minimum, a confidence
\* of at least 50 and an age below 60 seconds.
C12_InsertedAreUsable ==
  [][cycle'.count > cycle.count =>
       \A i \in 1..Len(cycle'.output) :
         /\ cycle'.output[i].profitPercentage >= MinProfitPercentage
         /\ cycle'.output[i].confidence >= 50
         /\ now - cycle'.output[i].timestamp < 60000]_vars

\* the opportunities a cycle holds or has stored: the store's and the batch's
Held == Range(opportunities) \cup Range(newOpportunities) \cup Range(cycle.output)

\* C14: for two venues with different prices the candidate buys at the lower price
\* and sells at the higher one, whichever venue comes first; equal prices give no
\* opportunity; every emitted or stored opportunity has buyPrice < sellPrice.
C14_BuyLowSellHigh ==
  /\ \A k \in 1..Len(cycle.evaluated) :
       LET e == cycle.evaluated[k]
           p1 == e.dex1.price
           p2 == e.dex2.price
       IN /\ p1 < p2 => /\ e.opportunity.buyPrice = p1 /\ e.opportunity.sellPrice = p2
                         /\ e.opportunity.fromDex = e.dex1.dex
                         /\ e.opportunity.toDex = e.dex2.dex
          /\ p2 < p1 => /\ e.opportunity.buyPrice = p2 /\ e.opportunity.sellPrice = p1
                         /\ e.opportunity.fromDex = e.dex2.dex
                         /\ e.opportunity.toDex = e.dex1.dex
          /\ p1 = p2 => ~e.emitted
          /\ e.emitted => e.opportunity.buyPrice < e.opportunity.sellPrice
  /\ \A opp \in Held : opp.buyPrice < opp.sellPrice

\* C14 happens: a cycle has stored an opportunity of a pair whose first venue is
\* the dearer one, and has evaluated a pair of venues with equal prices
C14_Witness ==
  /\ cycle.done
  /\ \E k \in 1..Len(cycle.evaluated) :
       /\ cycle.evaluated[k].dex1.price > cycle.evaluated[k].dex2.price
       /\ cycle.evaluated[k].opportunity \in Range(opportunities)
  /\ \E k \in 1..Len(cycle.evaluated) :
       cycle.evaluated[k].dex1.price = cycle.evaluated[k].dex2.price

\* the venues of a price cache that may take part in a candidate
OnChainVenues(cache) ==
  {i \in 1..Len(cache.samples) :
     cache.samples[i].source = "on-chain" /\ cache.samples[i].price > 0}

\* C15: every opportunity a cycle stores was built from two different venues of
\* the price cache that both have an on-chain sample with a price above zero; a
\* cache with fewer than two such venues gives no opportunity.
C15_OnlyOnChainVenues ==
  cycle.done =>
    /\ \A opp \in Range(cycle.output) :
         \E i, j \in OnChainVenues(cycle.input) :
           /\ i # j
           /\ opp.fromDex = cycle.input.samples[i].dex
           /\ opp.buyPrice = cycle.input.samples[i].price
           /\ opp.toDex = cycle.input.samples[j].dex
           /\ opp.sellPrice = cycle.input.samples[j].price
    /\ Cardinality(OnChainVenues(cycle.input)) < 2 => cycle.output = <<>>

\* C16: the confidence of a generated opportunity is between 0 and 100, whatever
\* the ages of the two samples (future, fresh, stale, very old) and whichever of
\* the two venues are trusted.
C16_ConfidenceInRange ==
  scoreCall.called => scoreCall.confidence >= 0 /\ scoreCall.confidence <= 100

\* C16 happens: two fresh trusted venues, whose raw score of 120 is cut to 100
C16_Witness ==
  /\ scoreCall.called
  /\ scoreCall.buyDex.dex = "uniswap" /\ scoreCall.sellDex.dex = "uniswap"
  /\ scoreCall.now - scoreCall.buyDex.timestamp <= 30000
  /\ scoreCall.now - scoreCall.sellDex.timestamp < 0
  /\ scoreCall.confidence = 100

\* C17: confidence = clamp(100 - penalty(buy) - penalty(sell) + 10 per trusted
\* side, 0, 100), where penalty is 0 up to an age of 30,000 ms and
\* min(50, (age - 30,000) / 1000) beyond; an untrusted side aged 45,000 ms with a
\* fresh untrusted side gives 85.
C17_ConfidenceFormula ==
  LET trusted(side) == IF side.dex \in {"uniswap", "sushiswap", "pancakeswap"} THEN 1 ELSE 0
      age(side) == scoreCall.now - side.timestamp
      over(side) == (age(side) - 30000) \div 1000
      penalty(side) == IF age(side) <= 30000 THEN 0
                       ELSE IF over(side) < 50 THEN over(side) ELSE 50
      raw == 100 - penalty(scoreCall.buyDex) - penalty(scoreCall.sellDex)
                 + 10 * trusted(scoreCall.buyDex) + 10 * trusted(scoreCall.sellDex)
  IN scoreCall.called =>
       /\ scoreCall.confidence = IF raw < 0 THEN 0 ELSE IF raw > 100 THEN 100 ELSE raw
       /\ (/\ trusted(scoreCall.buyDex) = 0 /\ trusted(scoreCall.sellDex) = 0
           /\ age(scoreCall.buyDex) = 45000 /\ age(scoreCall.sellDex) = 0)
          => scoreCall.confidence = 85

\* C17 happens: an untrusted side aged 45,000 ms, a fresh untrusted side, score 85
C17_Witness ==
  /\ scoreCall.called
  /\ scoreCall.buyDex.dex = "quickswap" /\ scoreCall.sellDex.dex = "coingecko"
  /\ scoreCall.now - scoreCall.buyDex.timestamp = 45000
  /\ scoreCall.now - scoreCall.sellDex.timestamp = 0
  /\ scoreCall.confidence = 85

\* C18: every opportunity in the store, from where the executor takes it, has an
\* optimalAmount of at most the configured per-transaction cap, and of at most
\* twice the base amount of 0.05.
C18_AmountWithinCap ==
  \A opp \in Range(opportunities) :
    /\ opp.optimalAmount <= MaxTransactionAmount
    /\ opp.optimalAmount <= 2 * BaseAmount

\* C19: when the fee query fails the gas estimate is the fallback cost of 0.012,
\* the pair's candidate is still built, and the cycle goes on: it ends only after
\* evaluating every pair of qualifying venues, whatever fee queries failed.
C19_GasFailureRecovered ==
  LET n == Cardinality(OnChainVenues(cycle.input))
  IN /\ \A k \in 1..Len(cycle.evaluated) :
          cycle.evaluated[k].feeData = "throws" =>
            /\ cycle.evaluated[k].opportunity.gasCost = 12000
            /\ cycle.evaluated[k].opportunity.timestamp >= cycle.start
     /\ (cycle.path = "on-chain" /\ cycle.done) => Len(cycle.evaluated) = (n * (n - 1)) \div 2
     /\ (cycle.path = "on-chain" /\ ~cycle.done) =>
          /\ analysisPc = Len(cycle.evaluated) + 1
          /\ Len(cycle.evaluated) < (n * (n - 1)) \div 2

\* C19 happens: the fee query of the first of three venue pairs failed, its
\* candidate was stored all the same, and the cycle evaluated the other two pairs
C19_Witness ==
  /\ cycle.done
  /\ Len(cycle.evaluated) = 3
  /\ cycle.evaluated[1].feeData = "throws"
  /\ cycle.evaluated[1].opportunity \in Range(opportunities)
  /\ cycle.evaluated[3].feeData = "throws"

\* the gas estimates a cycle got and the clock readings it took, pair by pair
GasEstimates(c) == [k \in 1..Len(c.evaluated) |-> c.evaluated[k].feeData]
ClockReadings(c) == <<c.start>> \o [k \in 1..Len(c.evaluated) |-> c.evaluated[k].at]

\* C20: detection is a function of its inputs: a cycle that reads the same price
\* cache, the same clock and the same gas estimates as the cycle before it stores
\* the same set of opportunities (venues, prices, amounts, profits, confidence).
C20_Deterministic ==
  (/\ cycle.done
   /\ cycle.last.path # "none"
   /\ cycle.input = cycle.last.input
   /\ ClockReadings(cycle) = ClockReadings(cycle.last)
   /\ GasEstimates(cycle) = GasEstimates(cycle.last))
  => Range(cycle.output) = Range(cycle.last.output)

\* C21 as stated: grossProfit = optimalAmount * spread, slippageCost = grossProfit
\* * tolerance, netProfit = grossProfit - gasCost - slippageCost,
\* netProfitPercentage = netProfit / (optimalAmount * buyPrice) * 100; buying 0.1
\* at 2000 to sell at 2050 with gas cost 0.01 and 1% tolerance gives 5.0, 0.05,
\* 4.94 and about 24.7%.
C21_ProfitExample ==
  profitCall.op = "profitability" =>
    LET r == profitCall.result
    IN /\ r.grossProfit = r.optimalAmount * (r.sellPrice - r.buyPrice)
       /\ r.slippageCost = r.grossProfit \div 100
       /\ r.netProfit = r.grossProfit - r.gasCost - r.slippageCost
       /\ (/\ r.buyPrice = 2000 /\ r.sellPrice = 2050 /\ r.optimalAmount = 1000
           /\ r.gasCost = 100)
          => /\ r.grossProfit = 50000
             /\ r.slippageCost = 500
             /\ r.netProfit = 49400
             /\ r.netProfitPercentage \in 246..248

\* C21 with the percentage that the stated formula gives: the same four formulas,
\* and for the example 5.0, 0.05, 4.94 and 2.47% (4.94 / 200 * 100).
C21_ProfitFormulas ==
  profitCall.op = "profitability" =>
    LET r == profitCall.result
    IN /\ r.grossProfit = r.optimalAmount * (r.sellPrice - r.buyPrice)
       /\ r.slippageCost = r.grossProfit \div 100
       /\ r.netProfit = r.grossProfit - r.gasCost - r.slippageCost
       /\ r.netProfitPercentage * r.optimalAmount * r.buyPrice <= r.netProfit * 1000
       /\ r.netProfit * 1000 < (r.netProfitPercentage + 1) * r.optimalAmount * r.buyPrice
       /\ (/\ r.buyPrice = 2000 /\ r.sellPrice = 2050 /\ r.optimalAmount = 1000
           /\ r.gasCost = 100)
          => /\ r.grossProfit = 50000
             /\ r.slippageCost = 500
             /\ r.netProfit = 49400
             /\ r.netProfit * 10000 = 247 * r.optimalAmount * r.buyPrice
             /\ r.netProfitPercentage = 24

\* C21 happens: the profit of the example's trade has been computed
C21_Witness ==
  /\ profitCall.op = "profitability"
  /\ profitCall.result.buyPrice = 2000 /\ profitCall.result.sellPrice = 2050
  /\ profitCall.result.optimalAmount = 1000 /\ profitCall.result.gasCost = 100
  /\ profitCall.result.netProfit = 49400

\* C22: with the buy price, the gas cost and the slippage tolerance fixed, the net
\* profit percentage the detector computes, trade size included, does not
\* decrease when the (positive) spread grows.
C22_MonotoneInSpread ==
  (/\ profitCall.op = "detector"
   /\ profitCall.first.buyPrice = profitCall.second.buyPrice
   /\ profitCall.first.gasCost = profitCall.second.gasCost
   /\ profitCall.first.buyPrice < profitCall.first.sellPrice
   /\ profitCall.first.sellPrice <= profitCall.second.sellPrice)
  => profitCall.first.profitPercentage <= profitCall.second.profitPercentage

\* C22 happens: two spreads, the smaller sized below the cap and the larger at the
\* cap, and the larger spread has the larger net profit percentage
C22_Witness ==
  /\ profitCall.op = "detector"
  /\ profitCall.first.sellPrice < profitCall.second.sellPrice
  /\ profitCall.first.optimalAmount < profitCall.second.optimalAmount
  /\ profitCall.second.optimalAmount = 100000
  /\ profitCall.first.profitPercentage < profitCall.second.profitPercentage

\* C23: the execution history never holds more than 100 records; the record of an
\* execution that completes goes to the end, the records before it keep their
\* order, and when the history was full the oldest record, and only it, is dropped.
C23_HistoryKeepsLatest ==
  [][dailyTransactionCount' = dailyTransactionCount + 1 =>
       LET old == executionHistory
           new == executionHistory'
           dropped == Len(old) + 1 - Len(new)
       IN /\ Len(new) = (IF Len(old) < 100 THEN Len(old) + 1 ELSE 100)
          /\ new[Len(new)].timestamp = now
          /\ \A i \in 1..(Len(new) - 1) : new[i] = old[i + dropped]
          /\ \A i \in 1..(Len(new) - 1) : new[i].timestamp < new[i + 1].timestamp]_vars

\* C23 happens: a full history whose oldest initial record has been evicted by a
\* record appended later
C23_Witness ==
  /\ Len(executionHistory) = 100
  /\ executionHistory[1].timestamp > 5000
  /\ executionHistory[100].timestamp >= 600000
\* C24: the statistics are derived from the execution history: the total is the
\* number of records, and, every record being the record of an execution that
\* returned success, the records younger than 24 hours are all counted as
\* successes (rate 100, or 0 when there are none), the 24-hour profit is the sum
\* of their actual profits and the average profit their mean.
C24_StatsCountSuccesses ==
  statsCall.called =>
    LET Recent(exec) == statsCall.now - exec.timestamp < DayMs
        recent == SelectSeq(statsCall.history, Recent)
        stats == statsCall.stats
    IN /\ stats.totalExecutions = Len(statsCall.history)
       /\ stats.recentExecutions = Len(recent)
       /\ stats.successfulExecutions = Len(recent)
       /\ stats.successRate = (IF Len(recent) > 0 THEN 100 ELSE 0)
       /\ stats.totalProfit24h = SumActualProfit(recent)
       /\ stats.averageProfit =
            (IF Len(recent) > 0 THEN SumActualProfit(recent) \div Len(recent) ELSE 0)

C26_SubmissionOnlyOnTestnet ==
  \A c \in Callers :
    (pc[c] \in {"submit", "confirm"} \/ "submission" \in Range(trace[c]))
      => config.networkMode = "testnet"

\* C27: no call of executeArbitrage enters the submission stage unless its
\* simulation has run and succeeded before, in the same call.
C27_SimulatedBeforeSubmission ==
  \A c \in Callers :
    \A i \in 1..Len(trace[c]) :
      trace[c][i] = "submission" => \E j \in 1..(i - 1) : trace[c][j] = "simulation"

C29_SnapshotFound ==
  [][snapshotCall' # snapshotCall =>
       LET call == snapshotCall'
           out == call.outcome
       IN /\ priceCache' = priceCache
          /\ (out.error = "NotFound") <=> (call.key \notin everWritten)
          /\ out.error \in {"NotFound", "none"}
          /\ out.error = "none" =>
               /\ out.prices = priceCache[call.key].prices
               /\ out.lastUpdate = priceCache[call.key].lastUpdate
               /\ out.dataAge = now - out.lastUpdate
               /\ out.warned <=> (out.dataAge > 60000)]_vars

\* C29 witness: an entry older than 60 s was returned, with the warning, while the
\* other key, never written, was still missing
C29_Witness ==
  /\ snapshotCall.called
  /\ snapshotCall.outcome.error = "none"
  /\ snapshotCall.outcome.dataAge > 60000
  /\ snapshotCall.outcome.warned
  /\ snapshotCall.outcome.prices # <<>>
  /\ everWritten = {snapshotCall.key}

\* C30: a refresh writes per venue: every venue that had a sample in the entry of
\* the (network, token) still has one after the refresh, either the sample this
\* refresh wrote or, for a venue that yielded no price, the sample it had before.
C30_OtherVenuesKept ==
  [][\A key \in FeedKeys :
       priceCache[key].present =>
         \A i \in 1..Len(priceCache[key].prices) :
           LET old == priceCache[key].prices[i]
               new == priceCache'[key].prices
           IN \E j \in 1..Len(new) :
                /\ new[j].dex = old.dex
                /\ new[j] = old \/ (new[j].timestamp = now /\ new[j].price > 0)]_vars

C36_StoppedStoreEmpty ==
  ~isRunning => opportunities = <<>>

\* C34: the security gate passes only if, when it checks, the opportunity is at most
\* 60 s old, its net profit percentage is at least minProfitPercentage, the fee query
\* returned a gas price that is at most maxGasPrice, and the liquidity probe reported
\* sufficient depth; a missing provider, a fee query that throws and a fee query
\* without a gas price all make the gate fail.
C34_GatePassesOnlyIf ==
  lastReturn.op = "performSecurityChecks" =>
    /\ lastReturn.result = "passed" =>
         /\ lastReturn.now - lastReturn.opportunity.timestamp <= 60000
         /\ lastReturn.opportunity.profitPercentage >= MinProfitPercentage
         /\ lastReturn.providerOk
         /\ lastReturn.feeData.kind = "value"
         /\ lastReturn.feeData.gasPrice <= MaxGasPrice
         /\ lastReturn.liquidity
    /\ (~lastReturn.providerOk \/ lastReturn.feeData.kind \in {"throws", "null"}) =>
         lastReturn.result \in GateReasons

\* C34 witness: the gate passed an opportunity exactly 60 s old, exactly at the
\* minimum profit, with the gas price exactly at the maximum.
C34_Witness ==
  /\ lastReturn.op = "performSecurityChecks"
  /\ lastReturn.result = "passed"
  /\ lastReturn.now - lastReturn.opportunity.timestamp = 60000
  /\ lastReturn.opportunity.profitPercentage = MinProfitPercentage
  /\ lastReturn.feeData.gasPrice = MaxGasPrice


\* C38: an opportunity that was executed successfully is not submitted a second time
\* while it is at most 60 s old, whichever trigger (automatic tick, manual command,
\* web request) asks for it.
C38_NoSecondSubmission ==
  [][\A c \in Callers :
       (pc[c] # "submit" /\ pc'[c] = "submit") =>
         ~(/\ now - cur[c].timestamp <= UsableAgeMs
           /\ \E i \in 1..Len(executionHistory) :
                executionHistory[i].opportunity = cur[c].id)]_vars


\* the executions in the history that completed on the calendar day of instant t
CompletedOn(t) ==
  {i \in 1..Len(executionHistory) : Today(executionHistory[i].timestamp) = Today(t)}

\* C39: whenever the security gate checks the daily limit, the counter it compares
\* equals the number of successful executions completed since the most recent
\* calendar-day boundary; an execution that passed the gate before midnight and
\* completed after it counts toward the new day and no reset erases it.
C39_CounterCountsToday ==
  [][(ExecuteCalled /\ ~IsBusy /\ validateSecurityChecks(config)) =>
       dailyTransactionCount' = Cardinality(CompletedOn(now))]_vars


\* C40: getRecentExecutions(limit) returns at most limit records, the most recent
\* first, for every limit >= 0 (an empty list for limit = 0), and leaves the
\* execution history as it was.
C40_RecentExecutions ==
  [][lastReturn' # lastReturn =>
       LET list == lastReturn'.list
           n == Len(executionHistory)
       IN /\ Len(list) <= lastReturn'.limit
          /\ Len(list) <= n
          /\ \A i \in 1..Len(list) : list[i].id = executionHistory[n - i + 1].id
          /\ executionHistory' = executionHistory]_vars

\* getConnectionStatus().isConnected: !!this.signer
IsConnected == signer

\* C37: a connectMetaMask call that fails its network validation leaves no signer
\* and no wallet address behind when there was none before (isConnected stays false,
\* getSigner still throws), and in every reachable state a present signer implies
\* that connectedNetwork is a configured testnet.
C37_SignerOnlyOnTestnet ==
  /\ [](signer => connectedNetwork \in ConfiguredTestnets)
  /\ [][(/\ connectPc = "network"
          /\ lastReturn'.result = "UnsupportedNetwork"
          /\ ~lastReturn.before.signer) =>
            /\ ~signer'
            /\ walletAddress' = lastReturn.before.walletAddress
            /\ ~IsConnected'
            /\ getSignerThrows(signer')]_vars


\* C32: an error raised inside a price-refresh or detection cycle is caught at the
\* cycle's boundary: it does not escape to the process, both timers stay armed, and
\* the next refresh pass and the next detection cycle can run.
C32_ErrorsStayInCycle ==
  /\ loopError.outcome # "escaped"
  /\ feedRunning => updateInterval.armed
  /\ isRunning => analysisInterval.armed
  /\ (/\ feedRunning
      /\ now >= updateInterval.last + PriceUpdateInterval
      /\ passesStarted < MaxPassesStarted
      /\ config.networkMode = "testnet" \/ \E p \in PassSlots : passes[p] = NoPass)
       => ENABLED UpdateTimerFires
  /\ (isRunning /\ now >= analysisInterval.last + AnalysisInterval)
       => ENABLED DetectionCycle

\* C32 witness: an update of one refresh pass threw, and a pass started after it
\* has written the cache while both timers are armed.
C32_Witness ==
  /\ loopError.outcome = "caught"
  /\ loopError.cycle >= 1
  /\ \E key \in FeedKeys : priceCache[key].present /\ lastWriter[key] > loopError.cycle
  /\ updateInterval.armed
  /\ analysisInterval.armed

\* C33: the refresh loop, the detection loop and the automatic execution do not
\* wait for each other: a detection cycle can run whenever the analyzer's timer is
\* due, whatever the refresh passes in flight are doing; a refresh pass can start
\* and its updates can return whatever the analyzer does; and the 30-second task
\* can take the best stored opportunity, and its pipeline can move on, whatever
\* the two other loops are doing.
C33_NoLoopWaits ==
  /\ (/\ signer /\ pc["auto"] = "idle"
      /\ isExecuting \/ getBestOpportunities(opportunities, now, 1) # <<>>)
       => ENABLED AutoExecute
  /\ pc["auto"] # "idle"
       => ENABLED (\/ FeeDataReturn("auto") \/ BalanceReturn("auto")
                   \/ TokenBalanceReturn("auto") \/ SubmitReturn("auto")
                   \/ ConfirmReturn("auto"))
  /\ (isRunning /\ Due(analysisInterval, AnalysisInterval)) => ENABLED DetectionCycle
  /\ (/\ feedRunning /\ Due(updateInterval, PriceUpdateInterval)
      /\ passesStarted < MaxPassesStarted
      /\ config.networkMode = "testnet" \/ \E p \in PassSlots : passes[p] = NoPass)
       => ENABLED UpdateTimerFires
  /\ \A p \in PassSlots, key \in FeedKeys :
       /\ passes[p].at[key] = "dex" => ENABLED DexReturn(p, key)
       /\ passes[p].at[key] = "api" => ENABLED ApiReturn(p, key)

\* C33 witness: a detection cycle has read the cache while a refresh pass in flight
\* had rewritten one (network, token) entry and not yet the other.
C33_Witness ==
  /\ cycle.path = "loop"
  /\ cycle.rewritten # {}
  /\ cycle.pending # {}

\* C35: the cache never goes back: a write to a key comes from a pass that started
\* no earlier than the pass whose write it replaces, and no sample it stores was
\* fetched before a sample of the entry it replaces.
C35_CacheNeverRegresses ==
  [][\A key \in FeedKeys :
       priceCache'[key] # priceCache[key] =>
         /\ lastWriter'[key] >= lastWriter[key]
         /\ \A i \in DOMAIN priceCache'[key].prices, j \in DOMAIN priceCache[key].prices :
              priceCache'[key].prices[i].timestamp >= priceCache[key].prices[j].timestamp]_vars


====
